---- MODULE Spec2Model ----
(***************************************************************************)
(* RetinaFace post-processing pipeline of the face API: anchor generation, *)
(* decode, confidence filter, NMS, projection to original-image pixels and *)
(* conversion to the public DetectedFace record.                           *)
(*                                                                         *)
(* Numbers.  The code works on IEEE doubles; the model works on exact      *)
(* fixed-point integers.  A normalized coordinate c is the integer c * U,  *)
(* a pixel coordinate p is the integer p * U (U units per 1.0), an area is *)
(* in units of 1/U^2, a score s is the integer s * 100.  An out-of-range   *)
(* read of a Float32Array yields undefined, which every arithmetic use     *)
(* turns into NaN: the model keeps one value NaN that arithmetic           *)
(* propagates and that makes every comparison false.                       *)
(***************************************************************************)
EXTENDS Integers, Sequences, FiniteSets, TLC

\* ------------------------------------------------------------------------
\* Numbers
\* ------------------------------------------------------------------------

\* Fixed-point unit: eighths, exact for the configurations, resolutions and
\* raw deltas of the model, and small enough for areas of 1920 x 1280 pixel
\* boxes in units of 1/U^2 to stay below 2^31.
U == 2 * 4

NaN == 0 - (2 ^ 30)

Add(a, b) == IF a = NaN \/ b = NaN THEN NaN ELSE a + b

Sub(a, b) == IF a = NaN \/ b = NaN THEN NaN ELSE a - b

Mul(a, b) == IF a = NaN \/ b = NaN THEN NaN ELSE a * b

\* a * n / d for a fixed-point a and a rational n/d
Frac(a, n, d) == IF a = NaN THEN NaN ELSE (a * n) \div d

MathMax(a, b) == IF a = NaN \/ b = NaN THEN NaN ELSE IF a >= b THEN a ELSE b

MathMin(a, b) == IF a = NaN \/ b = NaN THEN NaN ELSE IF a <= b THEN a ELSE b

\* Math.ceil(a / b) for positive integers
MathCeil(a, b) == (a + b - 1) \div b

\* Math.round of the fixed-point p: the integer floor(p / U + 0.5)
MathRound_early(p) == IF p = NaN THEN NaN ELSE p \div U

MathRound(p) == IF p = NaN THEN NaN ELSE (2 * p + U) \div (2 * U)

\* Concatenation of a sequence of sequences
RECURSIVE Flatten(_)
Flatten(ss) == IF ss = <<>> THEN <<>> ELSE Head(ss) \o Flatten(Tail(ss))

\* ------------------------------------------------------------------------
\* Configuration
\* ------------------------------------------------------------------------

\* variance: [0.1, 0.2] as rationals over 10
cfg_mnet ==
  [name |-> "mobilenet0.25",
   min_sizes |-> << <<16, 32>>, <<64, 128>>, <<256, 512>> >>,
   steps |-> <<8, 16, 32>>,
   variance |-> <<1, 2>>,
   image_size |-> 640]

cfg_re50 ==
  [name |-> "Resnet50",
   min_sizes |-> << <<16, 32>>, <<64, 128>>, <<256, 512>> >>,
   steps |-> <<8, 16, 32>>,
   variance |-> <<1, 2>>,
   image_size |-> 840]

\* A configuration of the same shape scaled down to three anchors: two
\* levels, one grid cell each (the second by rounding 16/32 up), two sizes
\* on the first level and one on the second.
cfg_small ==
  [name |-> "small",
   min_sizes |-> << <<4, 8>>, <<8>> >>,
   steps |-> <<16, 32>>,
   variance |-> <<1, 2>>,
   image_size |-> 16]

CONFIDENCE_THRESHOLD == 2
TOP_K == 5000
NMS_THRESHOLD == 40
KEEP_TOP_K == 750
VIS_THRESHOLD == 60

\* ------------------------------------------------------------------------
\* PriorBox
\* ------------------------------------------------------------------------

\* constructor: feature_maps[k] = [ceil(h / step), ceil(w / step)]
PriorBoxFeatureMaps(cfg, image_size) ==
  [k \in 1..Len(cfg.steps) |->
     << MathCeil(image_size[1], cfg.steps[k]),
        MathCeil(image_size[2], cfg.steps[k]) >>]

\* body of the innermost loop for cell (i, j) of level k (i, j from 0):
\* one anchor [dense_cx, dense_cy, s_kx, s_ky] per min_size
PriorBoxCell(cfg, image_size, k, i, j) ==
  [s \in 1..Len(cfg.min_sizes[k]) |->
     << ((2 * j + 1) * cfg.steps[k] * U) \div (2 * image_size[2]),
        ((2 * i + 1) * cfg.steps[k] * U) \div (2 * image_size[1]),
        (cfg.min_sizes[k][s] * U) \div image_size[2],
        (cfg.min_sizes[k][s] * U) \div image_size[1] >>]

\* The loop nest of forward() as one step on the loop counters <<k, i, j>>:
\* j is the innermost counter, then i, then k.
PriorBoxAdvance_colMajor(fm, kij) ==
  LET k == kij[1]
      i == kij[2]
      j == kij[3]
  IN  IF i + 1 < fm[k][1] THEN <<k, i + 1, j>>
      ELSE IF j + 1 < fm[k][2] THEN <<k, 0, j + 1>>
      ELSE <<k + 1, 0, 0>>

PriorBoxAdvance(fm, kij) ==
  LET k == kij[1]
      i == kij[2]
      j == kij[3]
  IN  IF j + 1 < fm[k][2] THEN <<k, i, j + 1>>
      ELSE IF i + 1 < fm[k][1] THEN <<k, i + 1, 0>>
      ELSE <<k + 1, 0, 0>>

RECURSIVE PriorBoxLoop(_, _, _, _, _)
PriorBoxLoop(cfg, image_size, fm, kij, anchors) ==
  IF kij[1] > Len(fm) THEN anchors
  ELSE PriorBoxLoop(cfg, image_size, fm, PriorBoxAdvance(fm, kij),
                    anchors \o PriorBoxCell(cfg, image_size, kij[1], kij[2], kij[3]))

\* new PriorBox(cfg, image_size).forward()
PriorBoxForward(cfg, image_size) ==
  PriorBoxLoop(cfg, image_size, PriorBoxFeatureMaps(cfg, image_size),
               <<1, 0, 0>>, <<>>)

\* ------------------------------------------------------------------------
\* Sorting
\* ------------------------------------------------------------------------

\* Array.prototype.sort with the comparator (a, b) => b.key - a.key: a stable
\* descending sort.  A NaN difference counts as 0 (equal keys).
KeyBefore(a, b) == a # NaN /\ b # NaN /\ a > b

RECURSIVE InsertDesc_unstable(_, _)
InsertDesc_unstable(sorted, e) ==
  IF sorted = <<>> THEN <<e>>
  ELSE IF KeyBefore(Head(sorted).key, e.key)
       THEN <<Head(sorted)>> \o InsertDesc_unstable(Tail(sorted), e)
       ELSE <<e>> \o sorted

\* e goes after every element that does not sort after it
RECURSIVE InsertDesc(_, _)
InsertDesc(sorted, e) ==
  IF sorted = <<>> THEN <<e>>
  ELSE IF ~KeyBefore(e.key, Head(sorted).key)
       THEN <<Head(sorted)>> \o InsertDesc(Tail(sorted), e)
       ELSE <<e>> \o sorted

RECURSIVE SortDesc(_)
SortDesc(items) ==
  IF items = <<>> THEN <<>>
  ELSE InsertDesc(SortDesc(SubSeq(items, 1, Len(items) - 1)), items[Len(items)])

\* scores.map((score, idx) => ({score, idx})).sort(...).map(item => item.idx)
SortedIndices(scores) ==
  LET sorted == SortDesc([i \in 1..Len(scores) |-> [key |-> scores[i], idx |-> i]])
  IN  [p \in 1..Len(sorted) |-> sorted[p].idx]

\* arr.slice(0, n)
Slice_noCut(arr, n) == arr

Slice(arr, n) == SubSeq(arr, 1, IF n < Len(arr) THEN n ELSE Len(arr))

\* ------------------------------------------------------------------------
\* Decode
\* ------------------------------------------------------------------------

\* arr[i] of a Float32Array, i from 0: undefined (NaN in arithmetic) past the end
At(arr, i) == IF i + 1 <= Len(arr) THEN arr[i + 1] ELSE NaN

\* w * Math.exp(l * variances[1]).  A raw size delta of the model is an
\* integer k standing for the real k * ln(2) / variances[1], for which the
\* exponential is exactly 2^k.
TimesExp(w, k) ==
  IF w = NaN \/ k = NaN THEN NaN
  ELSE IF k >= 0 THEN w * (2 ^ k) ELSE w \div (2 ^ (0 - k))

decode(loc, priors, variances) ==
  [i \in 1..Len(priors) |->
     LET prior == priors[i]
         l == loc[i]
         cx == Add(prior[1], Frac(Mul(l[1], prior[3]), variances[1], 10))
         cy == Add(prior[2], Frac(Mul(l[2], prior[4]), variances[1], 10))
         w == TimesExp(prior[3], l[3])
         h == TimesExp(prior[4], l[4])
     IN  << Sub(cx, Frac(w, 1, 2)), Sub(cy, Frac(h, 1, 2)),
            Add(cx, Frac(w, 1, 2)), Add(cy, Frac(h, 1, 2)) >>]

decodeLandmarks(pre, priors, variances) ==
  [i \in 1..Len(priors) |->
     LET prior == priors[i]
         p == pre[i]
     IN  [c \in 1..10 |->
            IF c % 2 = 1
            THEN Add(prior[1], Frac(Mul(p[c], prior[3]), variances[1], 10))
            ELSE Add(prior[2], Frac(Mul(p[c], prior[4]), variances[1], 10))]]

\* ------------------------------------------------------------------------
\* Non-maximum suppression of the detector
\* ------------------------------------------------------------------------

\* n / d > t / 100 as the doubles compare: NaN is never greater, a zero
\* divisor gives Infinity (or NaN for 0 / 0).  For d > 0 and an integer n,
\* n / d > t / 100 iff n > floor(t * d / 100), computed without overflow.
RatioExceeds(n, d, t) ==
  /\ n # NaN
  /\ d # NaN
  /\ IF d > 0 THEN n > t * (d \div 100) + (t * (d % 100)) \div 100
     ELSE IF d = 0 THEN n > 0
     ELSE 100 * n < t * d

nmsArea(d) == Mul(Add(Sub(d[3], d[1]), U), Add(Sub(d[4], d[2]), U))

nmsInter(a, b) ==
  LET xx1 == MathMax(a[1], b[1])
      yy1 == MathMax(a[2], b[2])
      xx2 == MathMin(a[3], b[3])
      yy2 == MathMin(a[4], b[4])
      w == MathMax(0, Add(Sub(xx2, xx1), U))
      h == MathMax(0, Add(Sub(yy2, yy1), U))
  IN  Mul(w, h)

\* ovr > threshold for dets[i] and dets[j]
nmsOverlap(dets, i, j, threshold) ==
  LET inter == nmsInter(dets[i], dets[j])
  IN  RatioExceeds(inter,
                   Sub(Add(nmsArea(dets[i]), nmsArea(dets[j])), inter),
                   threshold)

\* the candidates one pass of the inner loop adds to suppressed
nmsInner_nextOnly(dets, order, i, suppressed, threshold) ==
  LET rest == SelectSeq(order, LAMBDA j : j # i /\ j \notin suppressed)
  IN  IF rest # <<>> /\ nmsOverlap(dets, i, rest[1], threshold)
      THEN {rest[1]} ELSE {}

nmsInner(dets, order, i, suppressed, threshold) ==
  {j \in 1..Len(dets) : /\ j # i
                       /\ j \notin suppressed
                       /\ nmsOverlap(dets, i, j, threshold)}

RECURSIVE nmsLoop(_, _, _, _, _, _)
nmsLoop(dets, order, p, keep, suppressed, threshold) ==
  IF p > Len(order) THEN keep
  ELSE IF order[p] \in suppressed
       THEN nmsLoop(dets, order, p + 1, keep, suppressed, threshold)
       ELSE nmsLoop(dets, order, p + 1, Append(keep, order[p]),
                    suppressed \cup nmsInner(dets, order, order[p], suppressed, threshold),
                    threshold)

\* dets[i] = <<x1, y1, x2, y2, score>>; returns the kept indices in rank order
nms(dets, threshold) ==
  nmsLoop(dets, SortedIndices([i \in 1..Len(dets) |-> dets[i][5]]),
          1, <<>>, {}, threshold)

\* ------------------------------------------------------------------------
\* Stages of detectFacesRetinaFace
\* ------------------------------------------------------------------------

\* An image is [width, height].  Jimp.read, then the capture of the original
\* size, then the resize to the square network input.  targetSize 0: absent.
preprocessForRetinaFace_lateCapture(img, targetSize) ==
  LET resized == IF targetSize # 0
                 THEN [width |-> targetSize, height |-> targetSize]
                 ELSE img
  IN  [width |-> resized.width, height |-> resized.height,
       originalWidth |-> resized.width, originalHeight |-> resized.height]

preprocessForRetinaFace(img, targetSize) ==
  LET originalWidth == img.width
      originalHeight == img.height
      resized == IF targetSize # 0
                 THEN [width |-> targetSize, height |-> targetSize]
                 ELSE img
  IN  [width |-> resized.width, height |-> resized.height,
       originalWidth |-> originalWidth, originalHeight |-> originalHeight]

\* outputs: the tensors [key, dims, data] in key order.  The last tensor of
\* each trailing dimension wins.
HasDim(outputs, d) ==
  \E p \in 1..Len(outputs) : Len(outputs[p].dims) = 3 /\ outputs[p].dims[3] = d

LastWithDim(outputs, d) ==
  LET hits == SelectSeq(outputs, LAMBDA t : Len(t.dims) = 3 /\ t.dims[3] = d)
  IN  hits[Len(hits)].data

extractModelOutputs_byName(outputs) ==
  LET named(k) == SelectSeq(outputs, LAMBDA t : t.key = k)
  IN  IF named("loc") = <<>> \/ named("conf") = <<>> \/ named("landms") = <<>>
      THEN [error |-> "Failed to extract RetinaFace outputs"]
      ELSE [error |-> "",
            loc |-> named("loc")[1].data,
            conf |-> named("conf")[1].data,
            landms |-> named("landms")[1].data]

extractModelOutputs(outputs) ==
  IF ~HasDim(outputs, 4) \/ ~HasDim(outputs, 2) \/ ~HasDim(outputs, 10)
  THEN [error |-> "Failed to extract RetinaFace outputs"]
  ELSE [error |-> "",
        loc |-> LastWithDim(outputs, 4),
        conf |-> LastWithDim(outputs, 2),
        landms |-> LastWithDim(outputs, 10)]

convertFlatArraysTo2D(m, numAnchors) ==
  LET confArray == [i \in 1..numAnchors |->
                      << At(m.conf, (i - 1) * 2), At(m.conf, (i - 1) * 2 + 1) >>]
  IN  [locArray |-> [i \in 1..numAnchors |->
                       [c \in 1..4 |-> At(m.loc, (i - 1) * 4 + (c - 1))]],
       confArray |-> confArray,
       landmsArray |-> [i \in 1..numAnchors |->
                          [c \in 1..10 |-> At(m.landms, (i - 1) * 10 + (c - 1))]],
       scores |-> [i \in 1..numAnchors |-> confArray[i][2]]]

scaleToPixelCoordinates_rounded(boxes, landmarks, originalWidth, originalHeight) ==
  [scaledBoxes |->
     [i \in 1..Len(boxes) |->
        << Mul(MathRound(Mul(boxes[i][1], originalWidth)), U),
           Mul(MathRound(Mul(boxes[i][2], originalHeight)), U),
           Mul(MathRound(Mul(boxes[i][3], originalWidth)), U),
           Mul(MathRound(Mul(boxes[i][4], originalHeight)), U) >>],
   scaledLandmarks |->
     [i \in 1..Len(landmarks) |->
        [c \in 1..10 |->
           Mul(MathRound(Mul(landmarks[i][c],
                             IF c % 2 = 1 THEN originalWidth ELSE originalHeight)), U)]]]

scaleToPixelCoordinates(boxes, landmarks, originalWidth, originalHeight) ==
  [scaledBoxes |->
     [i \in 1..Len(boxes) |->
        << Mul(boxes[i][1], originalWidth), Mul(boxes[i][2], originalHeight),
           Mul(boxes[i][3], originalWidth), Mul(boxes[i][4], originalHeight) >>],
   scaledLandmarks |->
     [i \in 1..Len(landmarks) |->
        [c \in 1..10 |->
           Mul(landmarks[i][c],
               IF c % 2 = 1 THEN originalWidth ELSE originalHeight)]]]

\* scores[i] > CONFIDENCE_THRESHOLD; false for NaN
AboveConfidence_nonStrict(score) == score # NaN /\ score >= CONFIDENCE_THRESHOLD

AboveConfidence(score) == score # NaN /\ score > CONFIDENCE_THRESHOLD

filterAndSortByConfidence_landmarksUnsorted(scaledBoxes, scores, scaledLandmarks, topK) ==
  LET indices == SelectSeq([i \in 1..Len(scores) |-> i],
                           LAMBDA i : AboveConfidence(scores[i]))
      filteredBoxes == [p \in 1..Len(indices) |-> scaledBoxes[indices[p]]]
      filteredScores == [p \in 1..Len(indices) |-> scores[indices[p]]]
      filteredLandmarks == [p \in 1..Len(indices) |-> scaledLandmarks[indices[p]]]
      sortedIndices == SortedIndices(filteredScores)
      top == Slice(sortedIndices, topK)
  IN  [boxes |-> [p \in 1..Len(top) |-> filteredBoxes[top[p]]],
       scores |-> [p \in 1..Len(top) |-> filteredScores[top[p]]],
       landmarks |-> [p \in 1..Len(top) |-> filteredLandmarks[p]]]

\* topK: the limit of slice(0, TOP_K)
filterAndSortByConfidence(scaledBoxes, scores, scaledLandmarks, topK) ==
  LET indices == SelectSeq([i \in 1..Len(scores) |-> i],
                           LAMBDA i : AboveConfidence(scores[i]))
      filteredBoxes == [p \in 1..Len(indices) |-> scaledBoxes[indices[p]]]
      filteredScores == [p \in 1..Len(indices) |-> scores[indices[p]]]
      filteredLandmarks == [p \in 1..Len(indices) |-> scaledLandmarks[indices[p]]]
      sortedIndices == SortedIndices(filteredScores)
      top == Slice(sortedIndices, topK)
  IN  [boxes |-> [p \in 1..Len(top) |-> filteredBoxes[top[p]]],
       scores |-> [p \in 1..Len(top) |-> filteredScores[top[p]]],
       landmarks |-> [p \in 1..Len(top) |-> filteredLandmarks[top[p]]]]

\* keepTopK: the limit of slice(0, KEEP_TOP_K)
applyNonMaximumSuppression(boxes, scores, keepTopK) ==
  LET dets == [i \in 1..Len(boxes) |-> boxes[i] \o <<scores[i]>>]
      keep == nms(dets, NMS_THRESHOLD)
  IN  Slice(keep, keepTopK)

VisibleAt_strict(confidence, visThreshold) ==
  confidence # NaN /\ confidence > visThreshold

VisibleAt(confidence, visThreshold) ==
  confidence # NaN /\ confidence >= visThreshold

formatDetectionResults_noThreshold(indices, boxes, scores, landmarks, visThreshold) ==
  [p \in 1..Len(indices) |->
     [bbox |-> boxes[indices[p]],
      confidence |-> scores[indices[p]],
      landmarks |-> [q \in 1..5 |-> << landmarks[indices[p]][2 * q - 1],
                                       landmarks[indices[p]][2 * q] >>]]]

formatDetectionResults(indices, boxes, scores, landmarks, visThreshold) ==
  LET visible == SelectSeq(indices, LAMBDA idx : VisibleAt(scores[idx], visThreshold))
  IN  [p \in 1..Len(visible) |->
         LET idx == visible[p]
             landm == landmarks[idx]
         IN  [bbox |-> boxes[idx],
              confidence |-> scores[idx],
              landmarks |-> [q \in 1..5 |-> << landm[2 * q - 1], landm[2 * q] >>]]]

\* ------------------------------------------------------------------------
\* Conversion to the public record
\* ------------------------------------------------------------------------

landmarkTypes == <<"eyeLeft", "eyeRight", "nose", "mouthLeft", "mouthRight">>

\* BoundingBox and X, Y are normalized fixed-point values, Area is in units
\* of 1/U^2, Confidence is a percentage, the Pixel fields are integers.
convertRetinaFaceToDetectedFace(detection, imageWidth, imageHeight) ==
  LET x1 == detection.bbox[1]
      y1 == detection.bbox[2]
      x2 == detection.bbox[3]
      y2 == detection.bbox[4]
      width == Sub(x2, x1)
      height == Sub(y2, y1)
  IN  [BoundingBox |-> [Left |-> Frac(x1, 1, imageWidth),
                        Top |-> Frac(y1, 1, imageHeight),
                        Width |-> Frac(width, 1, imageWidth),
                        Height |-> Frac(height, 1, imageHeight)],
       Confidence |-> detection.confidence,
       Area |-> Mul(Frac(width, 1, imageWidth), Frac(height, 1, imageHeight)),
       PixelBoundingBox |-> [Left |-> MathRound(x1),
                             Top |-> MathRound(y1),
                             Width |-> MathRound(width),
                             Height |-> MathRound(height)],
       Landmarks |-> [q \in 1..Len(detection.landmarks) |->
                        [Type |-> landmarkTypes[q],
                         X |-> Frac(detection.landmarks[q][1], 1, imageWidth),
                         Y |-> Frac(detection.landmarks[q][2], 1, imageHeight),
                         PixelX |-> MathRound(detection.landmarks[q][1]),
                         PixelY |-> MathRound(detection.landmarks[q][2])]]]

\* detectedFaces.sort((a, b) => b.Area - a.Area)
SortByArea(faces) ==
  LET sorted == SortDesc([i \in 1..Len(faces) |-> [key |-> faces[i].Area, idx |-> i]])
  IN  [p \in 1..Len(sorted) |-> faces[sorted[p].idx]]

\* The results the sort can leave: with a NaN area the comparator is not
\* consistent and the order is up to the engine.
SortOutcomes(faces) ==
  IF \A i \in 1..Len(faces) : faces[i].Area # NaN
  THEN { SortByArea(faces) }
  ELSE { [p \in 1..Len(faces) |-> faces[g[p]]] :
           g \in { h \in [1..Len(faces) -> 1..Len(faces)] :
                     \A x \in 1..Len(faces) : \E y \in 1..Len(faces) : h[y] = x } }

\* normalized: fixed-point Left, Top, Width, Height
normalizedToPixel(normalized, imageWidth, imageHeight) ==
  [Left |-> MathRound(Mul(normalized.Left, imageWidth)),
   Top |-> MathRound(Mul(normalized.Top, imageHeight)),
   Width |-> MathRound(Mul(normalized.Width, imageWidth)),
   Height |-> MathRound(Mul(normalized.Height, imageHeight))]

\* ------------------------------------------------------------------------
\* nmsUtils
\* ------------------------------------------------------------------------

\* The IoU of two normalized boxes as the fraction [n, d]; 0 is [0, 1]
calculateIoU(box1, box2) ==
  LET x1 == MathMax(box1.Left, box2.Left)
      y1 == MathMax(box1.Top, box2.Top)
      x2 == MathMin(Add(box1.Left, box1.Width), Add(box2.Left, box2.Width))
      y2 == MathMin(Add(box1.Top, box1.Height), Add(box2.Top, box2.Height))
      intersectionArea == Mul(MathMax(0, Sub(x2, x1)), MathMax(0, Sub(y2, y1)))
      unionArea == Sub(Add(Mul(box1.Width, box1.Height),
                           Mul(box2.Width, box2.Height)), intersectionArea)
  IN  IF unionArea # NaN /\ unionArea > 0
      THEN [n |-> intersectionArea, d |-> unionArea]
      ELSE [n |-> 0, d |-> 1]

\* iou > iouThreshold for sortedFaces[i] and sortedFaces[j]
facesOverlap(sortedFaces, i, j, iouThreshold) ==
  LET iou == calculateIoU(sortedFaces[i].BoundingBox, sortedFaces[j].BoundingBox)
  IN  RatioExceeds(iou.n, iou.d, iouThreshold)

\* the positions one pass of the inner loop adds to suppressed
applyNMSInner(sortedFaces, i, suppressed, iouThreshold) ==
  {j \in (i + 1)..Len(sortedFaces) : /\ j \notin suppressed
                                     /\ facesOverlap(sortedFaces, i, j, iouThreshold)}

RECURSIVE applyNMSLoop(_, _, _, _, _)
applyNMSLoop(sortedFaces, i, keep, suppressed, iouThreshold) ==
  IF i > Len(sortedFaces) THEN keep
  ELSE IF i \in suppressed
       THEN applyNMSLoop(sortedFaces, i + 1, keep, suppressed, iouThreshold)
       ELSE applyNMSLoop(sortedFaces, i + 1, Append(keep, i),
                         suppressed \cup applyNMSInner(sortedFaces, i, suppressed,
                                                       iouThreshold),
                         iouThreshold)

\* [...faces].sort((a, b) => b.Confidence - a.Confidence), as input indices
facesByConfidence(faces) ==
  SortedIndices([i \in 1..Len(faces) |-> faces[i].Confidence])

\* the input indices of keepFaces, in the order they were pushed
applyNMSKept(faces, iouThreshold) ==
  LET order == facesByConfidence(faces)
      sortedFaces == [p \in 1..Len(order) |-> faces[order[p]]]
      keep == applyNMSLoop(sortedFaces, 1, <<>>, {}, iouThreshold)
  IN  [p \in 1..Len(keep) |-> order[keep[p]]]

applyNMS(faces, iouThreshold) ==
  IF Len(faces) = 0 THEN <<>>
  ELSE LET kept == applyNMSKept(faces, iouThreshold)
       IN  SortByArea([p \in 1..Len(kept) |-> faces[kept[p]]])

\* ------------------------------------------------------------------------
\* Inputs
\* ------------------------------------------------------------------------

\* Uploaded images: both differ from the network input in width and height
Images == { [width |-> 30, height |-> 21], [width |-> 1920, height |-> 1280] }

\* Limits of the two slices: the program's, and limits small enough to cut
\* the three candidates of the scaled configuration
SmallTopK == 2
SmallKeepTopK == 1

Limits == { [topK |-> TOP_K, keepTopK |-> KEEP_TOP_K],
            [topK |-> SmallTopK, keepTopK |-> SmallKeepTopK] }

\* Raw location deltas of one anchor: none, doubled size, moved up-left by
\* the anchor's size and doubled
LocDeltas == { <<0, 0, 0, 0>>, <<0, 0, 1, 1>>, <<-10, -10, 1, 1>> }

\* Raw face scores of one anchor, around both thresholds
ScoreValues == { 2, 3, 60, 90 }

\* Raw landmark deltas of anchor i: each point moved by the anchor's size or not
LandmDeltas(i) == [c \in 1..10 |-> 10 * (((i + c) % 3) - 1)]

\* Anchors more or fewer than the configuration has, for <<loc, conf, landms>>
Shapes == { <<0, 0, 0>>, <<-1, 0, 0>>, <<1, 0, 0>>, <<0, -1, 0>>, <<0, 0, -1>>,
            <<1, 1, 1>>, <<-1, -1, -1>> }

Tensor(key, n, d, rows) ==
  [key |-> key, dims |-> <<1, n, d>>, data |-> Flatten([i \in 1..n |-> rows[i]])]

\* The reply of session.run for per-anchor deltas locs and scores scs over N
\* anchors, with the anchor counts off by shape; anchors past N repeat zeros
ModelReply(N, locs, scs, shape) ==
  << Tensor("loc", N + shape[1], 4,
            [i \in 1..(N + shape[1]) |-> IF i <= N THEN locs[i] ELSE <<0, 0, 0, 0>>]),
     Tensor("conf", N + shape[2], 2,
            [i \in 1..(N + shape[2]) |->
               IF i <= N THEN <<100 - scs[i], scs[i]>> ELSE <<10, 90>>]),
     Tensor("landms", N + shape[3], 10,
            [i \in 1..(N + shape[3]) |-> LandmDeltas(i)]) >>

\* Output names of another export of the model, by trailing dimension
ExportKeys == { [loc |-> "loc", conf |-> "conf", landms |-> "landms"],
                [loc |-> "output0", conf |-> "593", landms |-> "592"],
                [loc |-> "landms", conf |-> "loc", landms |-> "conf"] }

\* The orders of the three output keys
KeyOrders == { o \in [1..3 -> 1..3] : \A x \in 1..3 : \E y \in 1..3 : o[y] = x }

\* The reply with its tensors renamed and reordered
Exported(reply, keys, order) ==
  LET renamed == << [reply[1] EXCEPT !.key = keys.loc],
                    [reply[2] EXCEPT !.key = keys.conf],
                    [reply[3] EXCEPT !.key = keys.landms] >>
  IN  [x \in 1..3 |-> renamed[order[x]]]

ModelReplies(N) ==
  { ModelReply(N, locs, scs, shape) :
      locs \in [1..N -> LocDeltas], scs \in [1..N -> ScoreValues], shape \in Shapes }
  \cup { Exported(ModelReply(N, [i \in 1..N |-> <<0, 0, 1, 1>>],
                             [i \in 1..N |-> 90], <<0, 0, 0>>), keys, order) :
           keys \in ExportKeys, order \in KeyOrders }
  \cup { SubSeq(Exported(ModelReply(N, [i \in 1..N |-> <<0, 0, 0, 0>>],
                                    [i \in 1..N |-> 90], <<0, 0, 0>>), keys, order), 1, 2) :
           keys \in ExportKeys, order \in KeyOrders }

\* Candidates handed to the two suppressors on their own: normalized boxes
\* in eighths on an 8 x 8 image, so that a coordinate n / 8 is the pixel n.
\* One box, the box shifted by one, two and four pixels, and an enclosing box.
MaxDets == 3

StudyImage == [width |-> 8, height |-> 8]

StudyBoxes == { <<0, 0, 4, 4>>, <<1, 0, 5, 4>>, <<2, 0, 6, 4>>, <<4, 0, 8, 4>>,
                <<0, 0, 8, 8>> }

StudyScores == { 80, 90 }

\* the 0.3 default of applyNMS and NMS_THRESHOLD
StudyThresholds == { 30, NMS_THRESHOLD }

\* <<x1, y1, x2, y2, score>> in pixels
StudyDet(b, sc) ==
  << b[1] * StudyImage.width, b[2] * StudyImage.height,
     b[3] * StudyImage.width, b[4] * StudyImage.height, sc >>

StudyDets ==
  UNION { [1..n -> { StudyDet(b, sc) : b \in StudyBoxes, sc \in StudyScores }] :
            n \in 0..MaxDets }

\* the DetectedFace of a candidate
StudyFace(d) ==
  convertRetinaFaceToDetectedFace(
    [bbox |-> <<d[1], d[2], d[3], d[4]>>, confidence |-> d[5], landmarks |-> <<>>],
    StudyImage.width, StudyImage.height)

\* Resolutions [height, width] handed to PriorBox on its own
MaxRuns == 2

StudySizes == { <<h, w>> : h \in {8, 16, 32}, w \in {8, 16, 32} }

StudyConfigs == { cfg_mnet, cfg_re50, cfg_small }

\* ------------------------------------------------------------------------
\* State
\* ------------------------------------------------------------------------

VARIABLES
  retinaSession,    \* TRUE once initRetinaFaceModel has created the session
  retinaConfig,     \* the configuration initRetinaFaceModel selected
  limits,           \* the limits of the two slices
  pc,               \* position of the detection request
  image,            \* the uploaded image of the request
  originalDims,     \* originalWidth, originalHeight of detectAllFacesWithRetinaFace
  pre,              \* result of preprocessForRetinaFace
  outputs,          \* result of retinaSession.run
  modelOutputs,     \* loc, conf, landms
  priors,           \* anchors
  boxes,            \* decoded normalized boxes
  landmarks,        \* decoded normalized landmarks
  scores,           \* face scores
  scaled,           \* scaledBoxes, scaledLandmarks
  filtered,         \* boxes, scores, landmarks after the confidence filter
  dets,             \* the argument of nms
  nmsKeep,          \* the result of nms
  finalIndices,     \* nmsKeep cut to KEEP_TOP_K
  detections,       \* result of detectFacesRetinaFace
  detectedFaces,    \* result of detectAllFacesWithRetinaFace
  error,            \* message of the error thrown, "" if none
  nmsPc,            \* position of the suppression runs
  nmsThreshold,     \* their threshold
  nmsDets,          \* the candidates, argument of nms
  nmsOnce,          \* nms(nmsDets): kept indices
  nmsTwice,         \* nms of the survivors: kept indices into the survivors
  facesIn,          \* the candidates as DetectedFace, argument of applyNMS
  facesOnce,        \* applyNMS(facesIn)
  facesTwice,       \* applyNMS(facesOnce)
  pbPc,             \* position of the PriorBox invocations
  pbCfg,            \* cfg of the PriorBox
  pbSize,           \* image_size of the PriorBox: [height, width]
  pbFm,             \* feature_maps
  pbKij,            \* loop counters k, i, j of forward
  pbAnchors,        \* anchors of forward, as rows of four
  pbRuns            \* the results returned so far

VARIABLES
  cmpPc,            \* position of the comparison
  cmpSite,          \* who compares: the library function or the /compare handler
  embA,             \* first embedding
  embB,             \* second embedding
  cmpResult,        \* the values returned or sent
  cmpError          \* message of the error thrown, "" if none

cmpVars == <<cmpPc, cmpSite, embA, embB, cmpResult, cmpError>>

VARIABLES
  stored,           \* the embedding column of the table queried, row id = position
  qPc,              \* position of the similarity query
  qSite,            \* who queries: recognizeFace or searchSimilarEmbeddings
  qEmb,             \* the embedding searched for
  qLimit,           \* the LIMIT of the query
  qRows,            \* the rows answered: id and score
  qError            \* the error answered, "" if none

qVars == <<stored, qPc, qSite, qEmb, qLimit, qRows, qError>>

VARIABLES
  croppedDir,       \* CROPPED_FACES_DIR: file face_i.jpg -> its content, NoFile if absent
  reqs              \* the /store_embedding and /search requests in flight

cropVars == <<croppedDir, reqs>>

VARIABLES
  srvPc,            \* position of start
  startLog,         \* the steps of start completed, in order
  arcfaceSession,   \* TRUE once initModels has created the ArcFace session
  listening,        \* TRUE once app.listen was called
  calls             \* the detection and embedding calls made so far

srvVars == <<srvPc, startLog, arcfaceSession, listening, calls>>

VARIABLES
  faceRows,         \* table detected_faces: id -> original_image_path, face_image_path
  customerRows,     \* table enrolled_customers: id -> face_id
  bucket,           \* the keys of the objects in the S3 bucket
  nextIds,          \* how many uuids were drawn for faces, customers, originals
  hreqs             \* the requests to /faces and /management in flight

mgVars == <<faceRows, customerRows, bucket, nextIds, hreqs>>

moreVars == <<cmpVars, qVars, cropVars, srvVars, mgVars>>

locals == <<image, originalDims, pre, outputs, modelOutputs, priors, boxes,
            landmarks, scores, scaled, filtered, dets, nmsKeep, finalIndices,
            detections, detectedFaces, error>>

nmsVars == <<nmsPc, nmsThreshold, nmsDets, nmsOnce, nmsTwice, facesIn, facesOnce,
             facesTwice>>

pbVars == <<pbPc, pbCfg, pbSize, pbFm, pbKij, pbAnchors, pbRuns>>

globals == <<retinaSession, retinaConfig, limits>>

vars == <<globals, pc, locals, nmsVars, pbVars, moreVars>>

NoDims == [width |-> 0, height |-> 0]
NoPre == [width |-> 0, height |-> 0, originalWidth |-> 0, originalHeight |-> 0]
NoOutputs == [error |-> "", loc |-> <<>>, conf |-> <<>>, landms |-> <<>>]
NoScaled == [scaledBoxes |-> <<>>, scaledLandmarks |-> <<>>]
NoFiltered == [boxes |-> <<>>, scores |-> <<>>, landmarks |-> <<>>]

LocalsAtRest ==
  /\ image = NoDims
  /\ originalDims = NoDims
  /\ pre = NoPre
  /\ outputs = <<>>
  /\ modelOutputs = NoOutputs
  /\ priors = <<>>
  /\ boxes = <<>>
  /\ landmarks = <<>>
  /\ scores = <<>>
  /\ scaled = NoScaled
  /\ filtered = NoFiltered
  /\ dets = <<>>
  /\ nmsKeep = <<>>
  /\ finalIndices = <<>>
  /\ detections = <<>>
  /\ detectedFaces = <<>>
  /\ error = ""

NmsAtRest ==
  /\ nmsPc = "rest"
  /\ nmsThreshold = NMS_THRESHOLD
  /\ nmsDets = <<>>
  /\ nmsOnce = <<>>
  /\ nmsTwice = <<>>
  /\ facesIn = <<>>
  /\ facesOnce = <<>>
  /\ facesTwice = <<>>

PriorBoxAtRest ==
  /\ pbPc = "rest"
  /\ pbCfg = cfg_re50
  /\ pbSize = <<cfg_re50.image_size, cfg_re50.image_size>>
  /\ pbFm = <<>>
  /\ pbKij = <<1, 0, 0>>
  /\ pbAnchors = <<>>
  /\ pbRuns = <<>>

\* A quotient dot / (sqrt(norm1) * sqrt(norm2)) is kept as dot and
\* nn = norm1 * norm2, a root sqrt(sq) as sq; nan: the value is NaN.
NaNQuotient == [nan |-> TRUE, dot |-> 0, nn |-> 1]
NaNRoot == [nan |-> TRUE, sq |-> 0]
NoResult == [cosine |-> NaNQuotient, euclidean |-> NaNRoot]

CompareAtRest ==
  /\ cmpPc = "rest"
  /\ cmpSite = "none"
  /\ embA = <<>>
  /\ embB = <<>>
  /\ cmpResult = NoResult
  /\ cmpError = ""

SearchAtRest ==
  /\ stored = <<>>
  /\ qPc = "rest"
  /\ qSite = "none"
  /\ qEmb = <<>>
  /\ qLimit = 0
  /\ qRows = <<>>
  /\ qError = ""

CropAtRest ==
  /\ croppedDir = <<>>
  /\ reqs = <<>>

ServerAtRest ==
  /\ srvPc = "rest"
  /\ startLog = <<>>
  /\ arcfaceSession = FALSE
  /\ listening = FALSE
  /\ calls = <<>>

ManageAtRest ==
  /\ faceRows = <<>>
  /\ customerRows = <<>>
  /\ bucket = {}
  /\ nextIds = [face |-> 0, customer |-> 0, original |-> 0]
  /\ hreqs = <<>>

\* every study but s is at rest
OthersAtRest(s) ==
  /\ IF s # "compare" THEN CompareAtRest ELSE TRUE
  /\ IF s # "search" THEN SearchAtRest ELSE TRUE
  /\ IF s # "crop" THEN CropAtRest ELSE TRUE
  /\ IF s # "server" THEN ServerAtRest ELSE TRUE
  /\ IF s # "manage" THEN ManageAtRest ELSE TRUE

MoreAtRest == OthersAtRest("none")

PipelineAtRest ==
  /\ retinaSession = FALSE
  /\ retinaConfig = cfg_small
  /\ limits = [topK |-> TOP_K, keepTopK |-> KEEP_TOP_K]
  /\ pc = "rest"
  /\ LocalsAtRest

Init ==
  /\ retinaSession = FALSE
  /\ retinaConfig = cfg_small
  /\ limits \in Limits
  /\ pc = "idle"
  /\ LocalsAtRest
  /\ NmsAtRest
  /\ PriorBoxAtRest
  /\ MoreAtRest

\* ------------------------------------------------------------------------
\* Actions
\* ------------------------------------------------------------------------

\* initRetinaFaceModel: creates the session and selects the configuration
\* (the scaled configuration stands for the one of the architecture)
InitRetinaFaceModel ==
  /\ pc = "idle"
  /\ ~retinaSession
  /\ retinaSession' = TRUE
  /\ retinaConfig' = cfg_small
  /\ UNCHANGED <<limits, moreVars, pc, locals, nmsVars, pbVars>>

\* detectAllFacesWithRetinaFace up to the call of detectFacesRetinaFace: the
\* availability check and the size of the image as uploaded
DetectAllStart ==
  /\ pc = "idle"
  /\ \E img \in Images :
       /\ image' = img
       /\ IF ~retinaSession
          THEN /\ error' = "RetinaFace model not initialized"
               /\ pc' = "failed"
               /\ UNCHANGED originalDims
          ELSE /\ originalDims' = [width |-> img.width, height |-> img.height]
               /\ pc' = "detect"
               /\ UNCHANGED error
  /\ UNCHANGED <<globals, moreVars, nmsVars, pbVars, pre, outputs, modelOutputs, priors, boxes, landmarks,
                 scores, scaled, filtered, dets, nmsKeep, finalIndices,
                 detections, detectedFaces>>

\* detectFacesRetinaFace: session check and preprocessForRetinaFace
Preprocess ==
  /\ pc = "detect"
  /\ IF ~retinaSession
     THEN /\ error' = "RetinaFace model not initialized"
          /\ pc' = "failed"
          /\ UNCHANGED pre
     ELSE /\ pre' = preprocessForRetinaFace(image, retinaConfig.image_size)
          /\ pc' = "run"
          /\ UNCHANGED error
  /\ UNCHANGED <<globals, moreVars, nmsVars, pbVars, image, originalDims, outputs, modelOutputs, priors,
                 boxes, landmarks, scores, scaled, filtered, dets, nmsKeep,
                 finalIndices, detections, detectedFaces>>

\* retinaSession.run: any reply of the inference engine
RunInference ==
  /\ pc = "run"
  /\ \E reply \in ModelReplies(Len(PriorBoxForward(retinaConfig,
                                  <<pre.height, pre.width>>))) :
       outputs' = reply
  /\ pc' = "extract"
  /\ UNCHANGED <<globals, moreVars, nmsVars, pbVars, image, originalDims, pre, modelOutputs, priors, boxes,
                 landmarks, scores, scaled, filtered, dets, nmsKeep,
                 finalIndices, detections, detectedFaces, error>>

\* Step 2: extractModelOutputs
ExtractOutputs ==
  /\ pc = "extract"
  /\ LET m == extractModelOutputs(outputs)
     IN  IF m.error # ""
         THEN /\ error' = m.error
              /\ pc' = "failed"
              /\ UNCHANGED modelOutputs
         ELSE /\ modelOutputs' = m
              /\ pc' = "decode"
              /\ UNCHANGED error
  /\ UNCHANGED <<globals, moreVars, nmsVars, pbVars, image, originalDims, pre, outputs, priors, boxes,
                 landmarks, scores, scaled, filtered, dets, nmsKeep,
                 finalIndices, detections, detectedFaces>>

\* Steps 3 to 6: prior boxes, 2D arrays, decode, scale to pixels
DecodeAndScale ==
  /\ pc = "decode"
  /\ LET imageSize == retinaConfig.image_size
         p == PriorBoxForward(retinaConfig, <<imageSize, imageSize>>)
         conv == convertFlatArraysTo2D(modelOutputs, Len(p))
         b == decode(conv.locArray, p, retinaConfig.variance)
         lm == decodeLandmarks(conv.landmsArray, p, retinaConfig.variance)
     IN  /\ priors' = p
         /\ scores' = conv.scores
         /\ boxes' = b
         /\ landmarks' = lm
         /\ scaled' = scaleToPixelCoordinates(b, lm, pre.originalWidth,
                                              pre.originalHeight)
  /\ pc' = "filter"
  /\ UNCHANGED <<globals, moreVars, nmsVars, pbVars, image, originalDims, pre, outputs, modelOutputs,
                 filtered, dets, nmsKeep, finalIndices, detections,
                 detectedFaces, error>>

\* Step 7: filterAndSortByConfidence
FilterAndSort ==
  /\ pc = "filter"
  /\ filtered' = filterAndSortByConfidence(scaled.scaledBoxes, scores,
                                           scaled.scaledLandmarks, limits.topK)
  /\ pc' = "nms"
  /\ UNCHANGED <<globals, moreVars, nmsVars, pbVars, image, originalDims, pre, outputs, modelOutputs, priors,
                 boxes, landmarks, scores, scaled, dets, nmsKeep, finalIndices,
                 detections, detectedFaces, error>>

\* Step 8: applyNonMaximumSuppression
Suppress ==
  /\ pc = "nms"
  /\ dets' = [i \in 1..Len(filtered.boxes) |->
                filtered.boxes[i] \o <<filtered.scores[i]>>]
  /\ nmsKeep' = nms(dets', NMS_THRESHOLD)
  /\ finalIndices' = applyNonMaximumSuppression(filtered.boxes, filtered.scores,
                                                limits.keepTopK)
  /\ pc' = "format"
  /\ UNCHANGED <<globals, moreVars, nmsVars, pbVars, image, originalDims, pre, outputs, modelOutputs, priors,
                 boxes, landmarks, scores, scaled, filtered, detections,
                 detectedFaces, error>>

\* Step 9: formatDetectionResults
FormatResults ==
  /\ pc = "format"
  /\ detections' = formatDetectionResults(finalIndices, filtered.boxes,
                                          filtered.scores, filtered.landmarks,
                                          VIS_THRESHOLD)
  /\ pc' = "convert"
  /\ UNCHANGED <<globals, moreVars, nmsVars, pbVars, image, originalDims, pre, outputs, modelOutputs, priors,
                 boxes, landmarks, scores, scaled, filtered, dets, nmsKeep,
                 finalIndices, detectedFaces, error>>

\* the rest of detectAllFacesWithRetinaFace: conversion and sort by area
ConvertAndSort ==
  /\ pc = "convert"
  /\ detectedFaces' \in
       SortOutcomes([i \in 1..Len(detections) |->
                       convertRetinaFaceToDetectedFace(detections[i],
                                                       originalDims.width,
                                                       originalDims.height)])
  /\ pc' = "done"
  /\ UNCHANGED <<globals, moreVars, nmsVars, pbVars, image, originalDims, pre, outputs, modelOutputs, priors,
                 boxes, landmarks, scores, scaled, filtered, dets, nmsKeep,
                 finalIndices, detections, error>>

\* the request is over; the next one starts from fresh locals
Return ==
  /\ pc \in {"done", "failed"}
  /\ pc' = "idle"
  /\ image' = NoDims
  /\ originalDims' = NoDims
  /\ pre' = NoPre
  /\ outputs' = <<>>
  /\ modelOutputs' = NoOutputs
  /\ priors' = <<>>
  /\ boxes' = <<>>
  /\ landmarks' = <<>>
  /\ scores' = <<>>
  /\ scaled' = NoScaled
  /\ filtered' = NoFiltered
  /\ dets' = <<>>
  /\ nmsKeep' = <<>>
  /\ finalIndices' = <<>>
  /\ detections' = <<>>
  /\ detectedFaces' = <<>>
  /\ error' = ""
  /\ UNCHANGED <<globals, moreVars, nmsVars, pbVars>>

Next ==
  \/ InitRetinaFaceModel
  \/ DetectAllStart
  \/ Preprocess
  \/ RunInference
  \/ ExtractOutputs
  \/ DecodeAndScale
  \/ FilterAndSort
  \/ Suppress
  \/ FormatResults
  \/ ConvertAndSort
  \/ Return

Spec == Init /\ [][Next]_vars

\* ------------------------------------------------------------------------
\* The two suppressors on their own
\* ------------------------------------------------------------------------

InitNms ==
  /\ PipelineAtRest
  /\ PriorBoxAtRest
  /\ nmsPc = "input"
  /\ nmsThreshold \in StudyThresholds
  /\ nmsDets \in StudyDets
  /\ facesIn = [i \in 1..Len(nmsDets) |-> StudyFace(nmsDets[i])]
  /\ nmsOnce = <<>>
  /\ nmsTwice = <<>>
  /\ facesOnce = <<>>
  /\ facesTwice = <<>>
  /\ MoreAtRest

RunNms ==
  /\ nmsPc = "input"
  /\ nmsOnce' = nms(nmsDets, nmsThreshold)
  /\ nmsPc' = "nms"
  /\ UNCHANGED <<globals, moreVars, pc, locals, pbVars, nmsThreshold, nmsDets, nmsTwice,
                 facesIn, facesOnce, facesTwice>>

\* nms on the survivors of nms, in the order nms returned them
RunNmsAgain ==
  /\ nmsPc = "nms"
  /\ nmsTwice' = nms([p \in 1..Len(nmsOnce) |-> nmsDets[nmsOnce[p]]], nmsThreshold)
  /\ nmsPc' = "nmsAgain"
  /\ UNCHANGED <<globals, moreVars, pc, locals, pbVars, nmsThreshold, nmsDets, nmsOnce,
                 facesIn, facesOnce, facesTwice>>

RunApplyNMS ==
  /\ nmsPc = "nmsAgain"
  /\ facesOnce' = applyNMS(facesIn, nmsThreshold)
  /\ nmsPc' = "applyNMS"
  /\ UNCHANGED <<globals, moreVars, pc, locals, pbVars, nmsThreshold, nmsDets, nmsOnce,
                 nmsTwice, facesIn, facesTwice>>

RunApplyNMSAgain ==
  /\ nmsPc = "applyNMS"
  /\ facesTwice' = applyNMS(facesOnce, nmsThreshold)
  /\ nmsPc' = "applyNMSAgain"
  /\ UNCHANGED <<globals, moreVars, pc, locals, pbVars, nmsThreshold, nmsDets, nmsOnce,
                 nmsTwice, facesIn, facesOnce>>

NextNms == RunNms \/ RunNmsAgain \/ RunApplyNMS \/ RunApplyNMSAgain

SpecNms == InitNms /\ [][NextNms]_vars

\* ------------------------------------------------------------------------
\* PriorBox on its own, invoked twice
\* ------------------------------------------------------------------------

InitPriorBox ==
  /\ PipelineAtRest
  /\ NmsAtRest
  /\ pbPc = "rest"
  /\ pbCfg \in StudyConfigs
  /\ pbSize \in StudySizes
  /\ pbFm = <<>>
  /\ pbKij = <<1, 0, 0>>
  /\ pbAnchors = <<>>
  /\ pbRuns = <<>>
  /\ MoreAtRest

\* new PriorBox(cfg, image_size) and the entry of forward()
PriorBoxNew ==
  /\ pbPc \in {"rest", "returned"}
  /\ Len(pbRuns) < MaxRuns
  /\ pbFm' = PriorBoxFeatureMaps(pbCfg, pbSize)
  /\ pbAnchors' = <<>>
  /\ pbKij' = <<1, 0, 0>>
  /\ pbPc' = "loop"
  /\ UNCHANGED <<globals, moreVars, pc, locals, nmsVars, pbCfg, pbSize, pbRuns>>

\* one pass of the innermost loop body over min_sizes, and the loop counters
PriorBoxPush ==
  /\ pbPc = "loop"
  /\ pbKij[1] <= Len(pbFm)
  /\ pbAnchors' = pbAnchors \o PriorBoxCell(pbCfg, pbSize, pbKij[1], pbKij[2], pbKij[3])
  /\ pbKij' = PriorBoxAdvance(pbFm, pbKij)
  /\ UNCHANGED <<globals, moreVars, pc, locals, nmsVars, pbPc, pbCfg, pbSize, pbFm, pbRuns>>

\* the reshape to [num_anchors, 4] and the return
PriorBoxReturn ==
  /\ pbPc = "loop"
  /\ pbKij[1] > Len(pbFm)
  /\ pbRuns' = Append(pbRuns, pbAnchors)
  /\ pbPc' = "returned"
  /\ UNCHANGED <<globals, moreVars, pc, locals, nmsVars, pbCfg, pbSize, pbFm, pbKij, pbAnchors>>

NextPriorBox == PriorBoxNew \/ PriorBoxPush \/ PriorBoxReturn

SpecPriorBox == InitPriorBox /\ [][NextPriorBox]_vars

\* ------------------------------------------------------------------------
\* Comparison of embeddings
\* ------------------------------------------------------------------------

\* Largest length of an embedding
MaxDim == 2

EmbValues == { -1, 0, 1 }

\* The embeddings computeEmbedding can return: Array.from of the first output
Embeddings == UNION { [1..n -> EmbValues] : n \in 1..MaxDim }

RECURSIVE SumTo(_, _)
SumTo(f, n) == IF n = 0 THEN 0 ELSE SumTo(f, n - 1) + f[n]

\* sum of e[i] * e[i]
SquaredNorm(e) == SumTo([i \in 1..Len(e) |-> e[i] * e[i]], Len(e))

\* dot / (Math.sqrt(norm1) * Math.sqrt(norm2)): 0 / 0 is NaN (a zero norm
\* makes the dot product 0)
Quotient(dot, norm1, norm2) ==
  IF norm1 * norm2 = 0 THEN NaNQuotient
  ELSE [nan |-> FALSE, dot |-> dot, nn |-> norm1 * norm2]

MathSqrt(sq) == [nan |-> FALSE, sq |-> sq]

\* compareEmbeddings of embedding.ts
compareEmbeddings(embedding1, embedding2) ==
  IF Len(embedding1) # Len(embedding2)
  THEN [error |-> "Embeddings must have the same dimension",
        cosineSimilarity |-> NaNQuotient, euclideanDistance |-> NaNRoot]
  ELSE LET n == Len(embedding1)
           dotProduct == SumTo([i \in 1..n |-> embedding1[i] * embedding2[i]], n)
           norm1 == SquaredNorm(embedding1)
           norm2 == SquaredNorm(embedding2)
           sumSquares == SumTo([i \in 1..n |-> (embedding1[i] - embedding2[i])
                                               * (embedding1[i] - embedding2[i])], n)
       IN  [error |-> "",
            cosineSimilarity |-> Quotient(dotProduct, norm1, norm2),
            euclideanDistance |-> MathSqrt(sumSquares)]

\* The arithmetic of the /compare handler: the reduce calls run over eA, and
\* eB[i] past the end of eB is undefined, which makes the sum NaN.
controllerCompare(eA, eB) ==
  LET n == Len(eA)
      short == Len(eB) < n
      dot == SumTo([i \in 1..n |-> IF i <= Len(eB) THEN eA[i] * eB[i] ELSE 0], n)
      sq == SumTo([i \in 1..n |-> IF i <= Len(eB)
                                    THEN (eA[i] - eB[i]) * (eA[i] - eB[i]) ELSE 0], n)
  IN  [cosine |-> IF short THEN NaNQuotient
                  ELSE Quotient(dot, SquaredNorm(eA), SquaredNorm(eB)),
       euclidean |-> IF short THEN NaNRoot ELSE MathSqrt(sq)]

InitCompare ==
  /\ PipelineAtRest
  /\ NmsAtRest
  /\ PriorBoxAtRest
  /\ OthersAtRest("compare")
  /\ cmpPc = "input"
  /\ cmpSite = "none"
  /\ embA \in Embeddings
  /\ embB \in Embeddings
  /\ cmpResult = NoResult
  /\ cmpError = ""

\* a call of compareEmbeddings(embA, embB)
CallCompareEmbeddings ==
  /\ cmpPc = "input"
  /\ cmpSite' = "embedding"
  /\ LET r == compareEmbeddings(embA, embB)
     IN  IF r.error # ""
         THEN /\ cmpPc' = "thrown"
              /\ cmpError' = r.error
              /\ UNCHANGED cmpResult
         ELSE /\ cmpPc' = "returned"
              /\ cmpResult' = [cosine |-> r.cosineSimilarity,
                               euclidean |-> r.euclideanDistance]
              /\ UNCHANGED cmpError
  /\ UNCHANGED <<globals, pc, locals, nmsVars, pbVars, qVars, cropVars, srvVars, mgVars,
                 embA, embB>>

\* POST /compare with two images whose embeddings are embA and embB:
\* validation, ensureFaceDetected for both, the arithmetic, res.json
CompareRequest ==
  /\ cmpPc = "input"
  /\ cmpSite' = "controller"
  /\ \E valid \in BOOLEAN : \E faceA \in BOOLEAN : \E faceB \in BOOLEAN :
       IF ~valid
       THEN /\ cmpPc' = "thrown"
            /\ cmpError' = "Missing image_base64"
            /\ UNCHANGED cmpResult
       ELSE IF ~(faceA /\ faceB)
       THEN /\ cmpPc' = "thrown"
            /\ cmpError' = "no_face_detected"
            /\ UNCHANGED cmpResult
       ELSE /\ cmpPc' = "returned"
            /\ cmpResult' = controllerCompare(embA, embB)
            /\ UNCHANGED cmpError
  /\ UNCHANGED <<globals, pc, locals, nmsVars, pbVars, qVars, cropVars, srvVars, mgVars,
                 embA, embB>>

\* the caller has the answer; the same pair can be compared again
CompareDone ==
  /\ cmpPc \in {"returned", "thrown"}
  /\ cmpPc' = "input"
  /\ cmpSite' = "none"
  /\ cmpResult' = NoResult
  /\ cmpError' = ""
  /\ UNCHANGED <<globals, pc, locals, nmsVars, pbVars, qVars, cropVars, srvVars, mgVars,
                 embA, embB>>

NextCompare ==
  \/ CallCompareEmbeddings
  \/ CompareRequest
  \/ CompareDone

SpecCompare == InitCompare /\ [][NextCompare]_vars

\* ------------------------------------------------------------------------
\* Similarity queries
\* ------------------------------------------------------------------------

\* Largest number of rows of the table
MaxRows == 3

\* Embeddings of the dimension of the column, none of norm zero
StoredEmbeddings == { <<2, 2>>, <<1, 0>>, <<1, 1>>, <<0, 2>> }

\* LIMIT 10 of recognizeFace
RecognizeLimit == 10

\* toFixed(4)
FixedDigits == 4

\* 1 - (e <=> q): the cosine similarity of the row and the parameter
CosineOf(e, q) ==
  Quotient(SumTo([i \in 1..Len(e) |-> e[i] * q[i]], Len(e)),
           SquaredNorm(e), SquaredNorm(q))

\* e <-> q, squared
SquaredDistance(e, q) ==
  SumTo([i \in 1..Len(e) |-> (e[i] - q[i]) * (e[i] - q[i])], Len(e))

\* dot * |dot| of a quotient, to compare quotients
SignedSquare(c) == IF c.dot >= 0 THEN c.dot * c.dot ELSE 0 - (c.dot * c.dot)

\* the quotient c1 is smaller than the quotient c2
QuotientLess(c1, c2) == SignedSquare(c1) * c2.nn < SignedSquare(c2) * c1.nn

\* largest x in lo..hi with x * x <= m
RECURSIVE Isqrt(_, _, _)
Isqrt(m, lo, hi) ==
  IF lo = hi THEN lo
  ELSE LET mid == (lo + hi + 1) \div 2
       IN  IF mid * mid <= m THEN Isqrt(m, mid, hi) ELSE Isqrt(m, lo, mid - 1)

\* parseFloat(c.toFixed(4)) in units of 10^-4: the nearest multiple, a tie
\* going away from zero
ToFixed(c) ==
  LET unit == 10 ^ FixedDigits
      big == 4 * unit * unit
      d2 == c.dot * c.dot
      m == (big \div c.nn) * d2 + ((big % c.nn) * d2) \div c.nn
      r == (Isqrt(m, 0, 2 * unit) + 1) \div 2
  IN  IF c.dot >= 0 THEN r ELSE 0 - r

\* ORDER BY embedding <=> $1
NearerByCosine(i, j) == QuotientLess(CosineOf(stored[j], qEmb), CosineOf(stored[i], qEmb))

\* ORDER BY embedding <-> $1
NearerByL2(i, j) == SquaredDistance(stored[i], qEmb) < SquaredDistance(stored[j], qEmb)

\* row i sorts strictly before row j under the distance operator op
Nearer(op, i, j) ==
  IF op = "<=>" THEN NearerByCosine(i, j) ELSE NearerByL2(i, j)

\* ORDER BY embedding op $1 LIMIT k over rows 1..n; rows that sort equal
\* come in any order
QueryResults(n, k, op) ==
  LET len == IF k < n THEN k ELSE n
  IN  { r \in [1..len -> 1..n] :
          /\ \A x \in 1..len : \A y \in 1..len : x # y => r[x] # r[y]
          /\ \A x \in 1..len : \A y \in 1..len :
               x < y => ~Nearer(op, r[y], r[x])
          /\ \A i \in 1..n :
               (\A x \in 1..len : r[x] # i) =>
                 \A x \in 1..len : ~Nearer(op, i, r[x]) }

InitSearch ==
  /\ PipelineAtRest
  /\ NmsAtRest
  /\ PriorBoxAtRest
  /\ OthersAtRest("search")
  /\ stored \in UNION { [1..n -> StoredEmbeddings] : n \in 0..MaxRows }
  /\ qPc = "input"
  /\ qSite = "none"
  /\ qEmb \in StoredEmbeddings
  /\ qLimit = 0
  /\ qRows = <<>>
  /\ qError = ""

\* POST /faces/recognize for a face whose embedding is qEmb
RecognizeFace ==
  /\ qPc = "input"
  /\ qSite' = "recognizeFace"
  /\ \E hasId \in BOOLEAN : \E found \in BOOLEAN :
       IF ~hasId
       THEN /\ qError' = "face_id is required"
            /\ qPc' = "failed"
            /\ UNCHANGED <<qRows, qLimit>>
       ELSE IF ~found
       THEN /\ qError' = "Face not found"
            /\ qPc' = "failed"
            /\ UNCHANGED <<qRows, qLimit>>
       ELSE /\ \E r \in QueryResults(Len(stored), RecognizeLimit, "<=>") :
                 qRows' = [x \in 1..Len(r) |->
                             [id |-> r[x],
                              fixed |-> TRUE,
                              score |-> ToFixed(CosineOf(stored[r[x]], qEmb)),
                              cosine |-> CosineOf(stored[r[x]], qEmb)]]
            /\ qLimit' = RecognizeLimit
            /\ qPc' = "answered"
            /\ UNCHANGED qError
  /\ UNCHANGED <<globals, pc, locals, nmsVars, pbVars, cmpVars, cropVars, srvVars, mgVars,
                 stored, qEmb>>

\* searchSimilarEmbeddings(qEmb, limit)
SearchSimilarEmbeddings ==
  /\ qPc = "input"
  /\ qSite' = "searchSimilarEmbeddings"
  /\ \E limit \in 1..MaxRows :
       \E r \in QueryResults(Len(stored), limit, "<->") :
         /\ qLimit' = limit
         /\ qRows' = [x \in 1..Len(r) |->
                     [id |-> r[x],
                      fixed |-> FALSE,
                      score |-> 0,
                      cosine |-> CosineOf(stored[r[x]], qEmb)]]
  /\ qPc' = "answered"
  /\ UNCHANGED <<globals, pc, locals, nmsVars, pbVars, cmpVars, cropVars, srvVars, mgVars,
                 stored, qEmb, qError>>

\* the answer is out; the table can be queried again
QueryDone ==
  /\ qPc \in {"answered", "failed"}
  /\ qPc' = "input"
  /\ qSite' = "none"
  /\ qLimit' = 0
  /\ qRows' = <<>>
  /\ qError' = ""
  /\ UNCHANGED <<globals, pc, locals, nmsVars, pbVars, cmpVars, cropVars, srvVars, mgVars,
                 stored, qEmb>>

NextSearch ==
  \/ RecognizeFace
  \/ SearchSimilarEmbeddings
  \/ QueryDone

SpecSearch == InitSearch /\ [][NextSearch]_vars

\* ------------------------------------------------------------------------
\* Concurrent /store_embedding and /search requests: cropFacesService.ts
\* and embeddingController.ts.  Every await of a handler ends a step; the
\* steps of the requests interleave.
\* ------------------------------------------------------------------------

MaxFaces == 2

Requests == {1, 2}
Routes == {"/store_embedding", "/search"}

\* the files face_0.jpg, face_1.jpg, ... of CROPPED_FACES_DIR
FaceFiles == 0..(MaxFaces - 1)

NoFile == [owner |-> 0, face |-> 0]

\* the crop of face i of the image of request r
CropOf(r, i) == [owner |-> r, face |-> i]

\* the decimal digits of i, as `${i}` writes them
RECURSIVE Digits(_)
Digits(i) == IF i < 10 THEN <<i>> ELSE Digits(i \div 10) \o <<i % 10>>

\* `face_${i}.jpg` as UTF-16 code units
FileName(i) ==
  <<102, 97, 99, 101, 95>>
    \o [d \in 1..Len(Digits(i)) |-> 48 + Digits(i)[d]]
    \o <<46, 106, 112, 103>>

\* the comparison of Array.prototype.sort() without a comparator: the
\* strings are compared code unit by code unit, a prefix comes first
RECURSIVE CodeUnitsBefore(_, _)
CodeUnitsBefore(a, b) ==
  IF a = <<>> THEN b # <<>>
  ELSE IF b = <<>> THEN FALSE
  ELSE IF Head(a) # Head(b) THEN Head(a) < Head(b)
  ELSE CodeUnitsBefore(Tail(a), Tail(b))

\* sort() of the names of the files of a set
RECURSIVE SortNames(_)
SortNames(files) ==
  IF files = {} THEN <<>>
  ELSE LET first == CHOOSE f \in files :
                      \A g \in files \ {f} :
                        CodeUnitsBefore(FileName(f), FileName(g))
       IN  <<first>> \o SortNames(files \ {first})

\* the files present, in the order of sort()
SortedFiles(dir) == SortNames({f \in DOMAIN dir : dir[f] # NoFile})

NewRequest(route, n) ==
  [route |-> route, image |-> n, rpc |-> "start", faces |-> 0, i |-> 0,
   files |-> {}, faceCount |-> 0, facePaths |-> <<>>, results |-> <<>>,
   errors |-> <<>>, error |-> ""]

InitCrop ==
  /\ PipelineAtRest
  /\ NmsAtRest
  /\ PriorBoxAtRest
  /\ OthersAtRest("crop")
  /\ croppedDir = [f \in FaceFiles |-> NoFile]
  /\ reqs \in [Requests -> {NewRequest(route, n) :
                              route \in Routes, n \in 0..MaxFaces}]

cropOthers == <<globals, pc, locals, nmsVars, pbVars, cmpVars, qVars, srvVars,
                mgVars>>

\* cropAndSaveFaces: detectAllFacesWithRetinaFace, NoFaceDetectedError
\* if there is no face (sent by sendErrorResponse as no_face_detected)
CropDetect(r) ==
  /\ reqs[r].rpc = "start"
  /\ reqs' = [reqs EXCEPT ![r] =
       IF @.image = 0
       THEN [@ EXCEPT !.rpc = "responded", !.error = "no_face_detected"]
       ELSE [@ EXCEPT !.rpc = "readdir", !.faces = reqs[r].image]]
  /\ UNCHANGED <<croppedDir, cropOthers>>

\* clearCroppedFacesDir: access and readdir
ClearReaddir(r) ==
  /\ reqs[r].rpc = "readdir"
  /\ reqs' = [reqs EXCEPT ![r] =
       [@ EXCEPT !.rpc = "unlink",
                 !.files = {f \in DOMAIN croppedDir : croppedDir[f] # NoFile}]]
  /\ UNCHANGED <<croppedDir, cropOthers>>

\* clearCroppedFacesDir: unlink of the files read; an ENOENT of a file
\* that is gone is caught and answered by mkdir
ClearUnlink(r) ==
  /\ reqs[r].rpc = "unlink"
  /\ croppedDir' = [f \in DOMAIN croppedDir |->
                      IF f \in reqs[r].files THEN NoFile ELSE croppedDir[f]]
  /\ reqs' = [reqs EXCEPT ![r] = [@ EXCEPT !.rpc = "write", !.i = 0]]
  /\ UNCHANGED cropOthers

\* cropAndSaveFaces: cropImageRegion and writeFile of face_i.jpg; after the
\* last face, return faces.length
CropWrite(r) ==
  /\ reqs[r].rpc = "write"
  /\ croppedDir' = [croppedDir EXCEPT ![reqs[r].i] = CropOf(r, reqs[r].i)]
  /\ reqs' = [reqs EXCEPT ![r] =
       IF @.i + 1 < @.faces
       THEN [@ EXCEPT !.i = reqs[r].i + 1]
       ELSE [@ EXCEPT !.rpc = "paths", !.faceCount = reqs[r].faces]]
  /\ UNCHANGED cropOthers

\* getCroppedFacePaths: readdir, filter, sort
GetCroppedFacePaths(r) ==
  /\ reqs[r].rpc = "paths"
  /\ reqs' = [reqs EXCEPT ![r] =
       [@ EXCEPT !.rpc = "loop", !.i = 0,
                 !.facePaths = SortedFiles(croppedDir)]]
  /\ UNCHANGED <<croppedDir, cropOthers>>

\* storeEmbedding, searchEmbeddings: one turn of the loop over facePaths,
\* named face_i; the file is read now, a failure goes to errors
ProcessFace(r) ==
  /\ reqs[r].rpc = "loop"
  /\ reqs[r].i < Len(reqs[r].facePaths)
  /\ LET content == croppedDir[reqs[r].facePaths[reqs[r].i + 1]]
     IN reqs' = [reqs EXCEPT ![r] =
          IF content = NoFile
          THEN [@ EXCEPT !.i = reqs[r].i + 1,
                         !.errors = Append(reqs[r].errors,
                                           [face |-> reqs[r].i])]
          ELSE [@ EXCEPT !.i = reqs[r].i + 1,
                         !.results = Append(reqs[r].results,
                                            [face |-> reqs[r].i,
                                             content |-> content])]]
  /\ UNCHANGED <<croppedDir, cropOthers>>

\* storeEmbedding, searchEmbeddings: res.json
Respond(r) ==
  /\ reqs[r].rpc = "loop"
  /\ reqs[r].i = Len(reqs[r].facePaths)
  /\ reqs' = [reqs EXCEPT ![r] = [@ EXCEPT !.rpc = "responded"]]
  /\ UNCHANGED <<croppedDir, cropOthers>>

\* what was sent
Response(req) ==
  IF req.error # ""
  THEN [error |-> req.error, total_faces |-> 0, results |-> <<>>, failed |-> 0]
  ELSE [error |-> "", total_faces |-> req.faceCount, results |-> req.results,
        failed |-> Len(req.errors)]

NextCrop ==
  \/ \E r \in DOMAIN reqs : CropDetect(r)
  \/ \E r \in DOMAIN reqs : ClearReaddir(r)
  \/ \E r \in DOMAIN reqs : ClearUnlink(r)
  \/ \E r \in DOMAIN reqs : CropWrite(r)
  \/ \E r \in DOMAIN reqs : GetCroppedFacePaths(r)
  \/ \E r \in DOMAIN reqs : ProcessFace(r)
  \/ \E r \in DOMAIN reqs : Respond(r)

SpecCrop == InitCrop /\ [][NextCrop]_vars

\* One request that runs alone, for an image of up to ManyFaces faces
ManyFaces == 11

InitAlone ==
  /\ PipelineAtRest
  /\ NmsAtRest
  /\ PriorBoxAtRest
  /\ OthersAtRest("crop")
  /\ croppedDir = [f \in 0..(ManyFaces - 1) |-> NoFile]
  /\ reqs \in [{1} -> {NewRequest(route, n) :
                         route \in Routes, n \in 0..ManyFaces}]

SpecAlone == InitAlone /\ [][NextCrop]_vars

\* ------------------------------------------------------------------------
\* Start of the server and the guards of the session handles: server.ts,
\* embedding.ts, retinaface.ts
\* ------------------------------------------------------------------------

MaxCalls == 3

\* how a call arrives: through the listening server, or from code that
\* imports the module (app is exported, the functions are exported)
Vias == {"http", "direct"}

StartOrder == <<"connectDB", "ensureBucketExists", "initModels">>

\* computeEmbedding without its check of the handle
computeEmbedding_unchecked(session) == [ran |-> TRUE, error |-> ""]

\* computeEmbedding: throws unless the ArcFace session exists, else runs it
computeEmbedding(session) ==
  IF ~session
  THEN [ran |-> FALSE, error |-> "ArcFace model not initialized"]
  ELSE [ran |-> TRUE, error |-> ""]

\* detectAllFacesWithRetinaFace and detectFacesRetinaFace: throw unless the
\* RetinaFace session exists, else run it
detectFacesRetinaFace(session) ==
  IF ~session
  THEN [ran |-> FALSE, error |-> "RetinaFace model not initialized"]
  ELSE [ran |-> TRUE, error |-> ""]

srvOthers == <<limits, pc, locals, nmsVars, pbVars, cmpVars, qVars, cropVars,
               mgVars>>

InitServer ==
  /\ PipelineAtRest
  /\ NmsAtRest
  /\ PriorBoxAtRest
  /\ OthersAtRest("server")
  /\ srvPc = "start"
  /\ startLog = <<>>
  /\ arcfaceSession = FALSE
  /\ listening = FALSE
  /\ calls = <<>>

\* start: await connectDB()
ConnectDB ==
  /\ srvPc = "start"
  /\ srvPc' = "connected"
  /\ startLog' = Append(startLog, "connectDB")
  /\ UNCHANGED <<retinaSession, retinaConfig, arcfaceSession, listening, calls,
                 srvOthers>>

\* start: await s3Service.ensureBucketExists()
EnsureBucketExists ==
  /\ srvPc = "connected"
  /\ srvPc' = "bucket"
  /\ startLog' = Append(startLog, "ensureBucketExists")
  /\ UNCHANGED <<retinaSession, retinaConfig, arcfaceSession, listening, calls,
                 srvOthers>>

\* initModels: arcfaceSession = await ort.InferenceSession.create(...)
InitModelsArcface ==
  /\ srvPc = "bucket"
  /\ srvPc' = "arcface"
  /\ arcfaceSession' = TRUE
  /\ UNCHANGED <<retinaSession, retinaConfig, startLog, listening, calls,
                 srvOthers>>

\* initModels: await initRetinaFaceModel(MODEL_PATHS.RETINAFACE, "resnet50")
InitModelsRetina ==
  /\ srvPc = "arcface"
  /\ srvPc' = "models"
  /\ retinaSession' = TRUE
  /\ retinaConfig' = cfg_re50
  /\ startLog' = Append(startLog, "initModels")
  /\ UNCHANGED <<arcfaceSession, listening, calls, srvOthers>>

\* start: app.listen(PORT, ...)
Listen ==
  /\ srvPc = "models"
  /\ srvPc' = "listening"
  /\ listening' = TRUE
  /\ UNCHANGED <<retinaSession, retinaConfig, arcfaceSession, startLog, calls,
                 srvOthers>>

\* start: one of the awaited steps rejects; start() ends and
\* app.listen is not reached
StartFails ==
  /\ srvPc \in {"start", "connected", "bucket", "arcface"}
  /\ srvPc' = "crashed"
  /\ UNCHANGED <<retinaSession, retinaConfig, arcfaceSession, startLog,
                 listening, calls, srvOthers>>

\* a call of computeEmbedding
ComputeEmbeddingCall ==
  /\ srvPc # "crashed"
  /\ Len(calls) < MaxCalls
  /\ \E via \in Vias :
       /\ via = "http" => listening
       /\ calls' = Append(calls,
            [fn |-> "computeEmbedding", via |-> via, handle |-> arcfaceSession,
             out |-> computeEmbedding(arcfaceSession)])
  /\ UNCHANGED <<retinaSession, retinaConfig, srvPc, startLog, arcfaceSession,
                 listening, srvOthers>>

\* a call of detectAllFacesWithRetinaFace
DetectCall ==
  /\ srvPc # "crashed"
  /\ Len(calls) < MaxCalls
  /\ \E via \in Vias :
       /\ via = "http" => listening
       /\ calls' = Append(calls,
            [fn |-> "detectAllFacesWithRetinaFace", via |-> via,
             handle |-> retinaSession,
             out |-> detectFacesRetinaFace(retinaSession)])
  /\ UNCHANGED <<retinaSession, retinaConfig, srvPc, startLog, arcfaceSession,
                 listening, srvOthers>>

NextServer ==
  \/ ConnectDB
  \/ EnsureBucketExists
  \/ InitModelsArcface
  \/ InitModelsRetina
  \/ Listen
  \/ StartFails
  \/ ComputeEmbeddingCall
  \/ DetectCall

SpecServer == InitServer /\ [][NextServer]_vars

\* ------------------------------------------------------------------------
\* The /faces and /management handlers over detected_faces,
\* enrolled_customers and the S3 bucket: facesController.ts,
\* faceDetectionService.ts, managementController (part_009).  Every await
\* that reaches the database or the bucket ends a step.
\* ------------------------------------------------------------------------

MaxFaceIds == 3
MaxCustomers == 2
MaxUploads == 2

Slots == {1, 2}
FaceIds == 1..MaxFaceIds
CustomerIds == 1..MaxCustomers

\* originals/${originalImageId}.jpg and faces/${faceId}.jpg
OriginalKey(u) == <<"originals", u>>
FaceKey(id) == <<"faces", id>>

\* INSERT and DELETE on a table kept as a function from id to row
InsertRow(t, id, row) ==
  [x \in DOMAIN t \cup {id} |-> IF x = id THEN row ELSE t[x]]
DeleteRows(t, ids) == [x \in DOMAIN t \ ids |-> t[x]]

\* SELECT ... FROM enrolled_customers WHERE face_id = $1
References(custs, fid) == {c \in DOMAIN custs : custs[c].face_id = fid}

\* the SELECT of deleteOrphanedFaces without its WHERE clause
OrphanedFaces_all(faces, custs) == DOMAIN faces

\* WHERE id NOT IN (SELECT face_id FROM enrolled_customers)
OrphanedFaces(faces, custs) ==
  {f \in DOMAIN faces : References(custs, f) = {}}

\* enrolled_customers.face_id REFERENCES detected_faces(id) ON DELETE
\* CASCADE: the customers that go with the faces deleted
Cascaded(custs, fids) == {c \in DOMAIN custs : custs[c].face_id \in fids}

NoStats == [detected_faces |-> 0, enrolled_customers |-> 0, orphaned_faces |-> 0]
NoSnapshot == [faceRows |-> <<>>, customerRows |-> <<>>, bucket |-> {}]

IdleRequest ==
  [op |-> "none", rpc |-> "idle", face_id |-> 0, customer_id |-> 0,
   hasIdentifier |-> FALSE, hasFile |-> FALSE, n |-> 0, i |-> 0,
   key |-> <<>>, original |-> <<>>, list |-> <<>>, todo |-> {},
   status |-> 0, error |-> "", count |-> 0, stats |-> NoStats,
   downloaded |-> FALSE, embedded |-> FALSE, before |-> NoSnapshot]

\* the tables and the bucket as a request finds them
Snapshot ==
  [faceRows |-> faceRows, customerRows |-> customerRows, bucket |-> bucket]

\* the requests that can arrive, with what they found on arrival; a request
\* that draws uuids arrives only while the model has uuids left
Arrivals(ops, snapshot) ==
  LET base == [IdleRequest EXCEPT !.before = snapshot]
  IN  { [base EXCEPT !.op = "detect", !.rpc = "detect.start",
                     !.hasFile = f, !.n = k] :
          f \in {b \in BOOLEAN : "detect" \in ops},
          k \in {m \in 0..MaxFaces : /\ nextIds.face + m <= MaxFaceIds
                                     /\ nextIds.original < MaxUploads} }
      \cup
      { [base EXCEPT !.op = "getFace", !.rpc = "get.select", !.face_id = f] :
          f \in {x \in FaceIds : "getFace" \in ops} }
      \cup
      { [base EXCEPT !.op = "enroll", !.rpc = "enroll.select",
                     !.face_id = f, !.hasIdentifier = h] :
          f \in {x \in FaceIds \cup {0} : /\ "enroll" \in ops
                                          /\ nextIds.customer < MaxCustomers},
          h \in BOOLEAN }
      \cup
      { [base EXCEPT !.op = "recognize", !.rpc = "recognize.select",
                     !.face_id = f] :
          f \in {x \in FaceIds \cup {0} : "recognize" \in ops} }
      \cup
      { [base EXCEPT !.op = "deleteFace", !.rpc = "delface.check",
                     !.face_id = f] :
          f \in {x \in FaceIds : "deleteFace" \in ops} }
      \cup
      { [base EXCEPT !.op = "deleteCustomer", !.rpc = "delcust.select",
                     !.customer_id = c] :
          c \in {x \in CustomerIds : "deleteCustomer" \in ops} }
      \cup
      { [base EXCEPT !.op = "deleteOrphaned", !.rpc = "orphan.select"] :
          x \in {y \in {0} : "deleteOrphaned" \in ops} }
      \cup
      { [base EXCEPT !.op = "stats", !.rpc = "stats.query"] :
          x \in {y \in {0} : "stats" \in ops} }

AllOps == {"detect", "getFace", "enroll", "recognize", "deleteFace",
           "deleteCustomer", "deleteOrphaned", "stats"}

mgOthers == <<globals, pc, locals, nmsVars, pbVars, cmpVars, qVars, cropVars,
              srvVars>>

\* res.status(status).json({error}) or res.json(...)
RespondWith(req, code, message) ==
  [req EXCEPT !.rpc = "responded", !.status = code, !.error = message]

InitManage ==
  /\ PipelineAtRest
  /\ NmsAtRest
  /\ PriorBoxAtRest
  /\ OthersAtRest("manage")
  /\ faceRows = <<>>
  /\ customerRows = <<>>
  /\ bucket = {}
  /\ nextIds = [face |-> 0, customer |-> 0, original |-> 0]
  /\ hreqs = [r \in Slots |-> IdleRequest]

\* express hands a request to its handler
ReceiveRequest(r) ==
  /\ hreqs[r].rpc \in {"idle", "responded"}
  /\ \E req \in Arrivals(AllOps, Snapshot) : hreqs' = [hreqs EXCEPT ![r] = req]
  /\ UNCHANGED <<faceRows, customerRows, bucket, nextIds, mgOthers>>

\* detectAndStoreFaces without its check for an empty detection
NoFaceFound_never(count) == FALSE

\* detectAndStoreFaces: detectedFaces.length === 0
NoFaceFound(count) == count = 0

\* detectFaces up to the upload of the original: the file check,
\* scaleDownImage, the detection and throw { code: "NO_FACE" }, which
\* sendErrorResponse answers with 400 no_face_detected
DetectFacesStart(r) ==
  /\ hreqs[r].rpc = "detect.start"
  /\ hreqs' = [hreqs EXCEPT ![r] =
       IF ~hreqs[r].hasFile
       THEN RespondWith(hreqs[r], 400, "No image file provided")
       ELSE IF NoFaceFound(hreqs[r].n)
       THEN RespondWith(hreqs[r], 400, "no_face_detected")
       ELSE [@ EXCEPT !.rpc = "detect.original"]]
  /\ UNCHANGED <<faceRows, customerRows, bucket, nextIds, mgOthers>>

\* detectAndStoreFaces: s3Service.uploadImage(originalImageKey, ...); a
\* failed upload throws and is answered with 500
UploadOriginal(r) ==
  /\ hreqs[r].rpc = "detect.original"
  /\ \E ok \in BOOLEAN :
       IF ok
       THEN LET k == OriginalKey(nextIds.original + 1)
            IN  /\ bucket' = bucket \cup {k}
                /\ nextIds' = [nextIds EXCEPT !.original = @ + 1]
                /\ hreqs' = [hreqs EXCEPT ![r] =
                     IF hreqs[r].n = 0
                     THEN RespondWith([@ EXCEPT !.original = k], 200, "")
                     ELSE [@ EXCEPT !.original = k, !.i = 0,
                                    !.rpc = "detect.face"]]
       ELSE /\ hreqs' = [hreqs EXCEPT ![r] =
                 RespondWith(hreqs[r], 500, "internal error")]
            /\ UNCHANGED <<bucket, nextIds>>
  /\ UNCHANGED <<faceRows, customerRows, mgOthers>>

\* detectAndStoreFaces, one face: randomUUID, cropImageRegion and
\* s3Service.uploadImage(faceImageKey, ...); either may throw
StoreFaceUpload(r) ==
  /\ hreqs[r].rpc = "detect.face"
  /\ \E outcome \in {"ok", "crop fails", "upload fails"} :
       LET id == nextIds.face + 1
       IN  /\ nextIds' = [nextIds EXCEPT !.face = id]
           /\ IF outcome = "ok"
              THEN /\ bucket' = bucket \cup {FaceKey(id)}
                   /\ hreqs' = [hreqs EXCEPT ![r] =
                        [@ EXCEPT !.face_id = id, !.key = FaceKey(id),
                                  !.rpc = "detect.insert"]]
              ELSE /\ hreqs' = [hreqs EXCEPT ![r] =
                        RespondWith([hreqs[r] EXCEPT !.face_id = id], 500,
                                    "internal error")]
                   /\ UNCHANGED bucket
  /\ UNCHANGED <<faceRows, customerRows, mgOthers>>

\* detectAndStoreFaces, one face: INSERT INTO detected_faces and
\* results.push; after the last face the handler answers the results
StoreFaceInsert(r) ==
  /\ hreqs[r].rpc = "detect.insert"
  /\ \E ok \in BOOLEAN :
       IF ok
       THEN /\ faceRows' = InsertRow(faceRows, hreqs[r].face_id,
                             [original_image_path |-> hreqs[r].original,
                              face_image_path |-> hreqs[r].key])
            /\ hreqs' = [hreqs EXCEPT ![r] =
                 IF hreqs[r].i + 1 < hreqs[r].n
                 THEN [@ EXCEPT !.i = hreqs[r].i + 1, !.rpc = "detect.face"]
                 ELSE RespondWith([@ EXCEPT !.i = hreqs[r].i + 1,
                                            !.count = hreqs[r].i + 1],
                                  200, "")]
       ELSE /\ hreqs' = [hreqs EXCEPT ![r] =
                 RespondWith(hreqs[r], 500, "internal error")]
            /\ UNCHANGED faceRows
  /\ UNCHANGED <<customerRows, bucket, nextIds, mgOthers>>

\* getFaceImage: SELECT face_image_path FROM detected_faces WHERE id = $1
GetFaceSelect(r) ==
  /\ hreqs[r].rpc = "get.select"
  /\ hreqs' = [hreqs EXCEPT ![r] =
       IF hreqs[r].face_id \notin DOMAIN faceRows
       THEN RespondWith(hreqs[r], 404, "Face not found")
       ELSE [@ EXCEPT !.key = faceRows[hreqs[r].face_id].face_image_path,
                      !.rpc = "get.download"]]
  /\ UNCHANGED <<faceRows, customerRows, bucket, nextIds, mgOthers>>

\* getFaceImage: s3Service.downloadImage and res.send; a missing object
\* throws and is answered with 500
GetFaceDownload(r) ==
  /\ hreqs[r].rpc = "get.download"
  /\ hreqs' = [hreqs EXCEPT ![r] =
       IF hreqs[r].key \in bucket
       THEN RespondWith([@ EXCEPT !.downloaded = TRUE], 200, "")
       ELSE RespondWith(hreqs[r], 500, "internal error")]
  /\ UNCHANGED <<faceRows, customerRows, bucket, nextIds, mgOthers>>

\* enrollFace without its check of the SELECT result
FaceMissing_never(faces, fid) == FALSE

\* enrollFace, recognizeFace: faceResult.rows.length === 0
FaceMissing(faces, fid) == fid \notin DOMAIN faces

\* enrollFace: the check of the body and the SELECT of the face
EnrollSelect(r) ==
  /\ hreqs[r].rpc = "enroll.select"
  /\ hreqs' = [hreqs EXCEPT ![r] =
       IF hreqs[r].face_id = 0 \/ ~hreqs[r].hasIdentifier
       THEN RespondWith(hreqs[r], 400,
                        "face_id and customer_identifier are required")
       ELSE IF FaceMissing(faceRows, hreqs[r].face_id)
       THEN RespondWith(hreqs[r], 404, "Face not found")
       ELSE [@ EXCEPT !.key = IF hreqs[r].face_id \in DOMAIN faceRows
                             THEN faceRows[hreqs[r].face_id].face_image_path
                             ELSE <<>>,
                      !.rpc = "enroll.embed"]]
  /\ UNCHANGED <<faceRows, customerRows, bucket, nextIds, mgOthers>>

\* enrollFace: s3Service.downloadImage, preprocessImage, computeEmbedding
EnrollEmbed(r) ==
  /\ hreqs[r].rpc = "enroll.embed"
  /\ hreqs' = [hreqs EXCEPT ![r] =
       IF hreqs[r].key \in bucket
       THEN [@ EXCEPT !.downloaded = TRUE, !.embedded = TRUE,
                      !.rpc = "enroll.insert"]
       ELSE RespondWith(hreqs[r], 500, "internal error")]
  /\ UNCHANGED <<faceRows, customerRows, bucket, nextIds, mgOthers>>

\* enrollFace: INSERT INTO enrolled_customers; the foreign key rejects a
\* face_id that is not in detected_faces
EnrollInsert(r) ==
  /\ hreqs[r].rpc = "enroll.insert"
  /\ IF hreqs[r].face_id \in DOMAIN faceRows
     THEN LET id == nextIds.customer + 1
          IN  /\ customerRows' = InsertRow(customerRows, id,
                                   [face_id |-> hreqs[r].face_id])
              /\ nextIds' = [nextIds EXCEPT !.customer = id]
              /\ hreqs' = [hreqs EXCEPT ![r] =
                   RespondWith([@ EXCEPT !.customer_id = id], 200, "")]
     ELSE /\ hreqs' = [hreqs EXCEPT ![r] =
               RespondWith(hreqs[r], 500, "internal error")]
          /\ UNCHANGED <<customerRows, nextIds>>
  /\ UNCHANGED <<faceRows, bucket, mgOthers>>

\* recognizeFace: the check of the body and the SELECT of the face
RecognizeSelect(r) ==
  /\ hreqs[r].rpc = "recognize.select"
  /\ hreqs' = [hreqs EXCEPT ![r] =
       IF hreqs[r].face_id = 0
       THEN RespondWith(hreqs[r], 400, "face_id is required")
       ELSE IF FaceMissing(faceRows, hreqs[r].face_id)
       THEN RespondWith(hreqs[r], 404, "Face not found")
       ELSE [@ EXCEPT !.key = IF hreqs[r].face_id \in DOMAIN faceRows
                             THEN faceRows[hreqs[r].face_id].face_image_path
                             ELSE <<>>,
                      !.rpc = "recognize.embed"]]
  /\ UNCHANGED <<faceRows, customerRows, bucket, nextIds, mgOthers>>

\* recognizeFace: the download, the embedding and the similarity query
\* (LIMIT 10)
RecognizeEmbed(r) ==
  /\ hreqs[r].rpc = "recognize.embed"
  /\ hreqs' = [hreqs EXCEPT ![r] =
       IF hreqs[r].key \in bucket
       THEN RespondWith([@ EXCEPT !.downloaded = TRUE, !.embedded = TRUE,
                                  !.count = MathMin(RecognizeLimit,
                                              Cardinality(DOMAIN customerRows))],
                        200, "")
       ELSE RespondWith(hreqs[r], 500, "internal error")]
  /\ UNCHANGED <<faceRows, customerRows, bucket, nextIds, mgOthers>>

\* deleteDetectedFace without its check of enrolled_customers
IsReferenced_never(custs, fid) == FALSE

\* deleteDetectedFace: parseInt(enrolledCheck.rows[0].count) > 0
IsReferenced(custs, fid) == Cardinality(References(custs, fid)) > 0

\* deleteDetectedFace: SELECT COUNT(*) FROM enrolled_customers WHERE
\* face_id = $1
DeleteFaceCheck(r) ==
  /\ hreqs[r].rpc = "delface.check"
  /\ hreqs' = [hreqs EXCEPT ![r] =
       IF IsReferenced(customerRows, hreqs[r].face_id)
       THEN RespondWith(hreqs[r], 400, "Cannot delete face")
       ELSE [@ EXCEPT !.rpc = "delface.select"]]
  /\ UNCHANGED <<faceRows, customerRows, bucket, nextIds, mgOthers>>

\* deleteDetectedFace: SELECT original_image_path, face_image_path
DeleteFaceSelect(r) ==
  /\ hreqs[r].rpc = "delface.select"
  /\ hreqs' = [hreqs EXCEPT ![r] =
       IF hreqs[r].face_id \notin DOMAIN faceRows
       THEN RespondWith(hreqs[r], 404, "Face not found")
       ELSE [@ EXCEPT !.original = faceRows[hreqs[r].face_id].original_image_path,
                      !.key = faceRows[hreqs[r].face_id].face_image_path,
                      !.rpc = "delface.delete"]]
  /\ UNCHANGED <<faceRows, customerRows, bucket, nextIds, mgOthers>>

\* deleteDetectedFace: DELETE FROM detected_faces WHERE id = $1
DeleteFaceRow(r) ==
  /\ hreqs[r].rpc = "delface.delete"
  /\ faceRows' = DeleteRows(faceRows, {hreqs[r].face_id})
  /\ customerRows' = DeleteRows(customerRows,
                                Cascaded(customerRows, {hreqs[r].face_id}))
  /\ hreqs' = [hreqs EXCEPT ![r] = [@ EXCEPT !.rpc = "delface.s3"]]
  /\ UNCHANGED <<bucket, nextIds, mgOthers>>

\* s3Service.deleteImage of the original, then of the face; the first
\* failure ends the try block and is only logged
DeleteImages(objects, original, face, outcome) ==
  IF outcome = "ok" THEN objects \ {original, face}
  ELSE IF outcome = "second fails" THEN objects \ {original}
  ELSE objects

S3Outcomes == {"ok", "first fails", "second fails"}

\* deleteDetectedFace: the two deleteImage calls and res.json
DeleteFaceS3(r) ==
  /\ hreqs[r].rpc = "delface.s3"
  /\ \E outcome \in S3Outcomes :
       bucket' = DeleteImages(bucket, hreqs[r].original, hreqs[r].key, outcome)
  /\ hreqs' = [hreqs EXCEPT ![r] = RespondWith(hreqs[r], 200, "")]
  /\ UNCHANGED <<faceRows, customerRows, nextIds, mgOthers>>

\* deleteEnrolledCustomer: SELECT ... FROM enrolled_customers WHERE id = $1
DeleteCustomerSelect(r) ==
  /\ hreqs[r].rpc = "delcust.select"
  /\ hreqs' = [hreqs EXCEPT ![r] =
       IF hreqs[r].customer_id \notin DOMAIN customerRows
       THEN RespondWith(hreqs[r], 404, "Customer not found")
       ELSE [@ EXCEPT !.rpc = "delcust.delete"]]
  /\ UNCHANGED <<faceRows, customerRows, bucket, nextIds, mgOthers>>

\* deleteEnrolledCustomer: DELETE FROM enrolled_customers WHERE id = $1
DeleteCustomerRow(r) ==
  /\ hreqs[r].rpc = "delcust.delete"
  /\ customerRows' = DeleteRows(customerRows, {hreqs[r].customer_id})
  /\ hreqs' = [hreqs EXCEPT ![r] = RespondWith(hreqs[r], 200, "")]
  /\ UNCHANGED <<faceRows, bucket, nextIds, mgOthers>>

\* deleteOrphanedFaces: the SELECT of the orphaned faces
OrphanedSelect(r) ==
  /\ hreqs[r].rpc = "orphan.select"
  /\ LET ids == OrphanedFaces(faceRows, customerRows)
     IN  hreqs' = [hreqs EXCEPT ![r] =
           IF ids = {}
           THEN RespondWith(hreqs[r], 200, "")
           ELSE [@ EXCEPT !.list = [f \in ids |-> faceRows[f]],
                          !.todo = ids, !.rpc = "orphan.delete"]]
  /\ UNCHANGED <<faceRows, customerRows, bucket, nextIds, mgOthers>>

\* deleteOrphanedFaces, one row of the result: DELETE FROM detected_faces
\* (the rows come in the order the database chose)
OrphanedDeleteRow(r) ==
  /\ hreqs[r].rpc = "orphan.delete"
  /\ \E f \in hreqs[r].todo :
       /\ faceRows' = DeleteRows(faceRows, {f})
       /\ customerRows' = DeleteRows(customerRows, Cascaded(customerRows, {f}))
       /\ hreqs' = [hreqs EXCEPT ![r] =
            [@ EXCEPT !.face_id = f, !.rpc = "orphan.s3"]]
  /\ UNCHANGED <<bucket, nextIds, mgOthers>>

\* deleteOrphanedFaces, one row: the two deleteImage calls, successCount++;
\* after the last row res.json
OrphanedDeleteS3(r) ==
  /\ hreqs[r].rpc = "orphan.s3"
  /\ LET row == hreqs[r].list[hreqs[r].face_id]
         rest == hreqs[r].todo \ {hreqs[r].face_id}
         next == [hreqs[r] EXCEPT !.todo = rest, !.count = hreqs[r].count + 1]
     IN  /\ \E outcome \in S3Outcomes :
              bucket' = DeleteImages(bucket, row.original_image_path,
                                     row.face_image_path, outcome)
         /\ hreqs' = [hreqs EXCEPT ![r] =
              IF rest = {} THEN RespondWith(next, 200, "")
              ELSE [next EXCEPT !.rpc = "orphan.delete"]]
  /\ UNCHANGED <<faceRows, customerRows, nextIds, mgOthers>>

\* getStats: the three counts
GetStats(r) ==
  /\ hreqs[r].rpc = "stats.query"
  /\ hreqs' = [hreqs EXCEPT ![r] =
       RespondWith([@ EXCEPT !.stats =
                      [detected_faces |-> Cardinality(DOMAIN faceRows),
                       enrolled_customers |-> Cardinality(DOMAIN customerRows),
                       orphaned_faces |->
                         Cardinality(OrphanedFaces(faceRows, customerRows))]],
                   200, "")]
  /\ UNCHANGED <<faceRows, customerRows, bucket, nextIds, mgOthers>>

\* one request at a time
Solo == {1}

NextManage ==
  \/ \E r \in Solo : ReceiveRequest(r)
  \/ \E r \in Solo : DetectFacesStart(r)
  \/ \E r \in Solo : UploadOriginal(r)
  \/ \E r \in Solo : StoreFaceUpload(r)
  \/ \E r \in Solo : StoreFaceInsert(r)
  \/ \E r \in Solo : GetFaceSelect(r)
  \/ \E r \in Solo : GetFaceDownload(r)
  \/ \E r \in Solo : EnrollSelect(r)
  \/ \E r \in Solo : EnrollEmbed(r)
  \/ \E r \in Solo : EnrollInsert(r)
  \/ \E r \in Solo : RecognizeSelect(r)
  \/ \E r \in Solo : RecognizeEmbed(r)
  \/ \E r \in Solo : DeleteFaceCheck(r)
  \/ \E r \in Solo : DeleteFaceSelect(r)
  \/ \E r \in Solo : DeleteFaceRow(r)
  \/ \E r \in Solo : DeleteFaceS3(r)
  \/ \E r \in Solo : DeleteCustomerSelect(r)
  \/ \E r \in Solo : DeleteCustomerRow(r)
  \/ \E r \in Solo : OrphanedSelect(r)
  \/ \E r \in Solo : OrphanedDeleteRow(r)
  \/ \E r \in Solo : OrphanedDeleteS3(r)
  \/ \E r \in Solo : GetStats(r)

SpecManage == InitManage /\ [][NextManage]_vars

\* ------------------------------------------------------------------------
\* Overlapping enroll and delete requests on faces already detected
\* ------------------------------------------------------------------------

RaceOps == {"enroll", "deleteFace", "deleteCustomer", "deleteOrphaned"}

\* the state after one POST /faces/detect of an image with k faces
InitRace ==
  /\ PipelineAtRest
  /\ NmsAtRest
  /\ PriorBoxAtRest
  /\ OthersAtRest("manage")
  /\ \E k \in 1..MaxFaces :
       /\ faceRows = [f \in 1..k |-> [original_image_path |-> OriginalKey(1),
                                      face_image_path |-> FaceKey(f)]]
       /\ bucket = {OriginalKey(1)} \cup {FaceKey(f) : f \in 1..k}
       /\ nextIds = [face |-> k, customer |-> 0, original |-> 1]
  /\ customerRows = <<>>
  /\ hreqs = [r \in Slots |-> IdleRequest]

\* express hands an enroll or delete request to its handler while another
\* request may be in flight
ReceiveRaceRequest(r) ==
  /\ hreqs[r].rpc \in {"idle", "responded"}
  /\ \E req \in Arrivals(RaceOps, NoSnapshot) : hreqs' = [hreqs EXCEPT ![r] = req]
  /\ UNCHANGED <<faceRows, customerRows, bucket, nextIds, mgOthers>>

NextRace ==
  \/ \E r \in Slots : ReceiveRaceRequest(r)
  \/ \E r \in Slots : EnrollSelect(r)
  \/ \E r \in Slots : EnrollEmbed(r)
  \/ \E r \in Slots : EnrollInsert(r)
  \/ \E r \in Slots : DeleteFaceCheck(r)
  \/ \E r \in Slots : DeleteFaceSelect(r)
  \/ \E r \in Slots : DeleteFaceRow(r)
  \/ \E r \in Slots : DeleteFaceS3(r)
  \/ \E r \in Slots : DeleteCustomerSelect(r)
  \/ \E r \in Slots : DeleteCustomerRow(r)
  \/ \E r \in Slots : OrphanedSelect(r)
  \/ \E r \in Slots : OrphanedDeleteRow(r)
  \/ \E r \in Slots : OrphanedDeleteS3(r)

SpecRace == InitRace /\ [][NextRace]_vars

\* ------------------------------------------------------------------------
\* Properties
\* ------------------------------------------------------------------------

Range(f) == { f[x] : x \in DOMAIN f }

Min2(a, b) == IF a <= b THEN a ELSE b

AfterDecode == {"filter", "nms", "format", "convert", "done"}
AfterFilter == {"nms", "format", "convert", "done"}
AfterSuppress == {"format", "convert", "done"}
AfterFormat == {"convert", "done"}

\* the anchors whose raw score is strictly above the low threshold
AboveLow == { a \in 1..Len(scores) : scores[a] # NaN /\ scores[a] > CONFIDENCE_THRESHOLD }

\* C1: in every detection run the decoded candidates are as many as the
\* anchors, the confidence filter leaves at most min(anchors, TOP_K), the
\* suppression at most KEEP_TOP_K, and the visibility threshold at most the
\* survivors of the suppression.
C1_StageCounts ==
  /\ pc \in AfterDecode =>
       /\ Len(priors) > 0
       /\ Len(boxes) = Len(priors)
       /\ Len(landmarks) = Len(priors)
       /\ Len(scores) = Len(priors)
  /\ pc \in AfterFilter =>
       /\ Len(filtered.boxes) <= Min2(Len(priors), limits.topK)
       /\ Len(filtered.scores) = Len(filtered.boxes)
       /\ Len(filtered.landmarks) = Len(filtered.boxes)
  /\ pc \in AfterSuppress =>
       /\ Len(finalIndices) <= limits.keepTopK
       /\ Len(finalIndices) <= Len(nmsKeep)
  /\ pc \in AfterFormat => Len(detections) <= Len(finalIndices)
  /\ pc = "done" => Len(detectedFaces) <= Len(finalIndices)

\* a run in which both slices cut and the visibility threshold drops a survivor
C1_Witness ==
  /\ pc = "done"
  /\ Cardinality(AboveLow) > limits.topK
  /\ Len(filtered.boxes) = limits.topK
  /\ Len(nmsKeep) > limits.keepTopK
  /\ Len(finalIndices) = limits.keepTopK
  /\ Len(detections) < Len(finalIndices)

ShapesMatch ==
  /\ Len(modelOutputs.loc) = 4 * Len(priors)
  /\ Len(modelOutputs.conf) = 2 * Len(priors)
  /\ Len(modelOutputs.landms) = 10 * Len(priors)

\* C2: raw location, score or landmark arrays whose length is not 4 N, 2 N,
\* 10 N for the anchor count N make the detection fail: no run gets past the
\* decode with such arrays.
C2_ShapeMismatchFails == pc \in AfterDecode => ShapesMatch

\* ------------------------------------------------------------------------

\* candidate i ranks before candidate j: higher score, or equal score and
\* earlier input index
RanksBefore(sc, i, j) == sc[i] > sc[j] \/ (sc[i] = sc[j] /\ i < j)

\* kept: the kept indices of n candidates with scores sc, Ov(i, j): the IoU
\* of i and j exceeds the threshold
Suppressed(n, sc, Ov(_, _), kept) ==
  /\ kept \subseteq 1..n
  /\ \A i \in kept : \A j \in kept : i # j => ~Ov(i, j)
  /\ \A i \in (1..n) \ kept : \E j \in kept : RanksBefore(sc, j, i) /\ Ov(j, i)
  /\ \A i \in 1..n : (\A j \in (1..n) \ {i} : RanksBefore(sc, i, j)) => i \in kept
  /\ (n = 2 /\ Ov(1, 2)) => kept = {IF RanksBefore(sc, 1, 2) THEN 1 ELSE 2}

NmsScores == [i \in 1..Len(nmsDets) |-> nmsDets[i][5]]
FaceScores == [i \in 1..Len(facesIn) |-> facesIn[i].Confidence]
NmsOv(i, j) == nmsOverlap(nmsDets, i, j, nmsThreshold)
FacesOv(i, j) == facesOverlap(facesIn, i, j, nmsThreshold)
FacesKept == applyNMSKept(facesIn, nmsThreshold)

\* C3: no two survivors of NMS have an IoU above the threshold, every
\* discarded candidate has an IoU above the threshold with a survivor ranked
\* before it, the first-ranked candidate survives, and of two overlapping
\* boxes exactly the higher-ranked survives; for nms and for applyNMS.
C3_NmsSurvivors ==
  /\ nmsPc \in {"nms", "nmsAgain", "applyNMS", "applyNMSAgain"} =>
       /\ Cardinality(Range(nmsOnce)) = Len(nmsOnce)
       /\ Suppressed(Len(nmsDets), NmsScores, NmsOv, Range(nmsOnce))
  /\ nmsPc \in {"applyNMS", "applyNMSAgain"} =>
       /\ Cardinality(Range(FacesKept)) = Len(FacesKept)
       /\ Len(facesOnce) = Len(FacesKept)
       /\ Range(facesOnce) = { facesIn[i] : i \in Range(FacesKept) }
       /\ Suppressed(Len(facesIn), FaceScores, FacesOv, Range(FacesKept))

\* three candidates of which one is suppressed by a survivor and two survive
C3_Witness ==
  /\ nmsPc = "applyNMSAgain"
  /\ Len(nmsDets) = 3
  /\ Len(nmsOnce) = 2
  /\ Len(facesOnce) = 2
  /\ \E i \in 1..3 : i \notin Range(nmsOnce) /\ nmsDets[i][5] > nmsDets[nmsOnce[2]][5]

\* position of x in the sequence q
PosIn(q, x) == CHOOSE p \in 1..Len(q) : q[p] = x

TiePairs(sc, Ov(_, _)) ==
  { ij \in (1..Len(sc)) \X (1..Len(sc)) :
      ij[1] < ij[2] /\ sc[ij[1]] = sc[ij[2]] /\ Ov(ij[1], ij[2]) }

\* kept: the kept indices in the order they were kept
TieOriginal(sc, Ov(_, _), kept) ==
  \A ij \in TiePairs(sc, Ov) : ij[1] \in Range(kept) /\ ij[2] \notin Range(kept)

TieAmended(sc, Ov(_, _), kept) ==
  /\ \A i \in 1..Len(sc) : \A j \in 1..Len(sc) :
       (i < j /\ sc[i] = sc[j] /\ i \in Range(kept) /\ j \in Range(kept))
         => PosIn(kept, i) < PosIn(kept, j)
  /\ \A ij \in TiePairs(sc, Ov) :
       /\ ij[1] \in Range(kept) => ij[2] \notin Range(kept)
       /\ ij[1] \notin Range(kept) =>
            \E h \in Range(kept) : RanksBefore(sc, h, ij[1]) /\ Ov(h, ij[1])

\* C4 as stated: of two candidates with equal scores that overlap above the
\* threshold, the one with the earlier input index is kept and the later one
\* is suppressed.
C4_TieKeepsEarlier ==
  /\ nmsPc \in {"nms", "nmsAgain", "applyNMS", "applyNMSAgain"} =>
       TieOriginal(NmsScores, NmsOv, nmsOnce)
  /\ nmsPc \in {"applyNMS", "applyNMSAgain"} =>
       TieOriginal(FaceScores, FacesOv, FacesKept)

\* C4 amended: candidates with equal scores are ranked by input index, so of
\* two that overlap above the threshold the later one is suppressed whenever
\* the earlier one is kept, and the earlier one is kept unless a survivor
\* ranked before it suppresses it.
C4_TieRanksEarlierFirst ==
  /\ nmsPc \in {"nms", "nmsAgain", "applyNMS", "applyNMSAgain"} =>
       TieAmended(NmsScores, NmsOv, nmsOnce)
  /\ nmsPc \in {"applyNMS", "applyNMSAgain"} =>
       TieAmended(FaceScores, FacesOv, FacesKept)

\* two overlapping candidates with equal scores, the earlier kept, the later
\* suppressed, by both suppressors
C4_Witness ==
  /\ nmsPc = "applyNMSAgain"
  /\ \E ij \in TiePairs(NmsScores, NmsOv) :
       ij[1] \in Range(nmsOnce) /\ ij[2] \notin Range(nmsOnce)
  /\ \E ij \in TiePairs(FaceScores, FacesOv) :
       ij[1] \in Range(FacesKept) /\ ij[2] \notin Range(FacesKept)

\* C5: NMS run again with the same threshold on its survivors keeps every
\* one of them; for nms and for applyNMS.
C5_NmsIdempotent ==
  /\ nmsPc \in {"nmsAgain", "applyNMS", "applyNMSAgain"} =>
       /\ Len(nmsTwice) = Len(nmsOnce)
       /\ Range(nmsTwice) = 1..Len(nmsOnce)
  /\ nmsPc = "applyNMSAgain" =>
       /\ Len(facesTwice) = Len(facesOnce)
       /\ Range(facesTwice) = Range(facesOnce)

\* a first run that suppressed a candidate and left two, and the second run
C5_Witness ==
  /\ nmsPc = "applyNMSAgain"
  /\ Len(nmsOnce) = 2
  /\ Len(nmsOnce) < Len(nmsDets)
  /\ Len(nmsTwice) = 2
  /\ Len(facesOnce) = 2
  /\ Len(facesOnce) < Len(facesIn)
  /\ Len(facesTwice) = 2

\* ------------------------------------------------------------------------

\* the injections of 1..n into the set S
Injections(n, S) ==
  { m \in [1..n -> S] : \A x \in 1..n : \A y \in 1..n : x # y => m[x] # m[y] }

\* m names, for each kept candidate, the anchor it was taken from
TakenFrom(m) ==
  \A x \in 1..Len(filtered.scores) :
    /\ filtered.scores[x] = scores[m[x]]
    /\ filtered.boxes[x] = scaled.scaledBoxes[m[x]]
    /\ filtered.landmarks[x] = scaled.scaledLandmarks[m[x]]

\* C6: the confidence filter keeps exactly the candidates whose score is
\* strictly above CONFIDENCE_THRESHOLD, sorted by descending score and cut to
\* the TOP_K best, and the suppression receives that set and nothing else.
C6_ConfidenceFilter ==
  /\ pc \in AfterFilter =>
       /\ Len(filtered.scores) = Min2(Cardinality(AboveLow), limits.topK)
       /\ \A x \in 1..Len(filtered.scores) : \A y \in 1..Len(filtered.scores) :
            x < y => filtered.scores[x] >= filtered.scores[y]
       /\ \E m \in Injections(Len(filtered.scores), AboveLow) :
            /\ TakenFrom(m)
            /\ \A a \in AboveLow \ Range(m) :
                 \A x \in 1..Len(filtered.scores) : scores[a] <= filtered.scores[x]
  /\ pc \in AfterSuppress =>
       /\ dets = [x \in 1..Len(filtered.boxes) |->
                    filtered.boxes[x] \o <<filtered.scores[x]>>]
       /\ Range(nmsKeep) \subseteq 1..Len(filtered.boxes)
       /\ Range(finalIndices) \subseteq Range(nmsKeep)

\* a score equal to the threshold is dropped and the kept ones are reordered
C6_Witness ==
  /\ pc = "format"
  /\ \E a \in 1..Len(scores) : scores[a] = CONFIDENCE_THRESHOLD
  /\ Len(filtered.scores) = 2
  /\ filtered.scores[1] > filtered.scores[2]
  /\ \E a \in 1..Len(scores) : \E b \in 1..Len(scores) :
       a < b /\ scores[a] = filtered.scores[2] /\ scores[b] = filtered.scores[1]

\* ------------------------------------------------------------------------

RECURSIVE SumOver(_, _)
SumOver(f, n) == IF n = 0 THEN 0 ELSE SumOver(f, n - 1) + f[n]

Rows(size, step) == MathCeil(size[1], step)
Cols(size, step) == MathCeil(size[2], step)

\* anchors of the levels before level k
LevelOffset(cfg, size, k) ==
  SumOver([l \in 1..Len(cfg.steps) |->
             Rows(size, cfg.steps[l]) * Cols(size, cfg.steps[l]) * Len(cfg.min_sizes[l])],
          k - 1)

\* the place of the anchor of level k, row i, column j, size s (i, j from 0)
AnchorIndex(cfg, size, k, i, j, s) ==
  LevelOffset(cfg, size, k)
    + (i * Cols(size, cfg.steps[k]) + j) * Len(cfg.min_sizes[k]) + s

ExpectedAnchor(cfg, size, k, i, j, s) ==
  << Frac(2 * j + 1, cfg.steps[k] * U, 2 * size[2]),
     Frac(2 * i + 1, cfg.steps[k] * U, 2 * size[1]),
     Frac(cfg.min_sizes[k][s], U, size[2]),
     Frac(cfg.min_sizes[k][s], U, size[1]) >>

AnchorsInOrder(anchors, cfg, size) ==
  /\ Len(anchors) = LevelOffset(cfg, size, Len(cfg.steps) + 1)
  /\ \A k \in 1..Len(cfg.steps) :
       \A i \in 0..(Rows(size, cfg.steps[k]) - 1) :
         \A j \in 0..(Cols(size, cfg.steps[k]) - 1) :
           \A s \in 1..Len(cfg.min_sizes[k]) :
             anchors[AnchorIndex(cfg, size, k, i, j, s)]
               = ExpectedAnchor(cfg, size, k, i, j, s)

\* C7: the anchors are generated level by level, row by row, column by
\* column, min size by min size over the ceil(h / stride) x ceil(w / stride)
\* grids, their count is the sum over the levels of rows x columns x sizes,
\* and two invocations with the same input size give the same sequence.
C7_AnchorOrder ==
  /\ \A r \in 1..Len(pbRuns) : AnchorsInOrder(pbRuns[r], pbCfg, pbSize)
  /\ \A r \in 1..Len(pbRuns) : \A q \in 1..Len(pbRuns) : pbRuns[r] = pbRuns[q]
  /\ pbPc = "push" =>
       /\ Len(pbAnchors) <= LevelOffset(pbCfg, pbSize, Len(pbCfg.steps) + 1)
       /\ Len(pbAnchors) = AnchorIndex(pbCfg, pbSize, pbKij[1], pbKij[2], pbKij[3], 0)

\* two invocations over a grid with more columns than rows and several rows
C7_Witness ==
  /\ Len(pbRuns) = 2
  /\ Rows(pbSize, pbCfg.steps[1]) > 1
  /\ Cols(pbSize, pbCfg.steps[1]) > Rows(pbSize, pbCfg.steps[1])
  /\ Len(pbCfg.min_sizes[1]) > 1
  /\ Len(pbRuns[2]) > 1

\* ------------------------------------------------------------------------

IsNumber(v) == v # NaN

\* C8: the pixel box of every returned face lies inside the image: Left and
\* Top are not negative, Left + Width is at most the image width and
\* Top + Height at most the image height.
C8_PixelBoxInsideImage ==
  (pc = "done" /\ ShapesMatch) =>
    \A x \in 1..Len(detectedFaces) :
      LET b == detectedFaces[x].PixelBoundingBox IN
        /\ IsNumber(b.Left) /\ IsNumber(b.Top) /\ IsNumber(b.Width) /\ IsNumber(b.Height)
        /\ 0 <= b.Left
        /\ 0 <= b.Top
        /\ b.Left + b.Width <= image.width
        /\ b.Top + b.Height <= image.height

AfterPreprocess == {"run", "extract", "decode"} \cup AfterDecode

ScaledBy(v, w, h) == [c \in 1..Len(v) |-> IF c % 2 = 1 THEN Mul(v[c], w) ELSE Mul(v[c], h)]

\* C9: the original width and height are the ones of the image before the
\* resize, and every decoded normalized x is multiplied by the original width
\* and every y by the original height, not by the size of the network input.
C9_OriginalDimensions ==
  /\ pc \in AfterPreprocess =>
       /\ pre.originalWidth = image.width
       /\ pre.originalHeight = image.height
       /\ pre.width = retinaConfig.image_size
       /\ pre.height = retinaConfig.image_size
       /\ originalDims = image
  /\ pc \in AfterDecode =>
       /\ Len(scaled.scaledBoxes) = Len(boxes)
       /\ Len(scaled.scaledLandmarks) = Len(landmarks)
       /\ \A a \in 1..Len(boxes) :
            /\ scaled.scaledBoxes[a] = ScaledBy(boxes[a], image.width, image.height)
            /\ scaled.scaledLandmarks[a] = ScaledBy(landmarks[a], image.width, image.height)
  /\ pc = "done" =>
       \A x \in 1..Len(detectedFaces) :
         \E y \in 1..Len(detections) :
           /\ detectedFaces[x].Confidence = detections[y].confidence
           /\ detectedFaces[x].BoundingBox.Left = Frac(detections[y].bbox[1], 1, image.width)
           /\ detectedFaces[x].BoundingBox.Top = Frac(detections[y].bbox[2], 1, image.height)

\* a box scaled by an image that is neither square nor of the network's size
C9_Witness ==
  /\ pc = "filter"
  /\ image.width # image.height
  /\ image.width # pre.width
  /\ image.height # pre.height
  /\ \E a \in 1..Len(boxes) :
       /\ \A c \in 1..4 : IsNumber(boxes[a][c])
       /\ scaled.scaledBoxes[a] # ScaledBy(boxes[a], pre.width, pre.height)
       /\ scaled.scaledBoxes[a] # ScaledBy(boxes[a], image.height, image.width)

\* the integer v is a nearest integer to the exact value p (p in units of 1/U)
Nearest(v, p) ==
  IF p = NaN THEN v = NaN
  ELSE /\ v # NaN
       /\ 2 * (v * U - p) <= U
       /\ 2 * (p - v * U) <= U

\* the face was computed from anchor a
FaceOfAnchor(face, a) ==
  LET b == boxes[a]
      px == face.PixelBoundingBox
  IN /\ face.Confidence = scores[a]
     /\ Nearest(px.Left, Mul(b[1], image.width))
     /\ Nearest(px.Top, Mul(b[2], image.height))
     /\ Nearest(px.Width, Mul(Sub(b[3], b[1]), image.width))
     /\ Nearest(px.Height, Mul(Sub(b[4], b[2]), image.height))
     /\ \A q \in 1..Len(face.Landmarks) :
          /\ Nearest(face.Landmarks[q].PixelX, Mul(landmarks[a][2 * q - 1], image.width))
          /\ Nearest(face.Landmarks[q].PixelY, Mul(landmarks[a][2 * q], image.height))

QuarterBox == [Left |-> 2, Top |-> 2, Width |-> 4, Height |-> 4]

\* C10: every pixel coordinate of a returned face is the nearest integer to
\* the decoded normalized coordinate times the original dimension, rounded
\* once at the output; the box (0.25, 0.25, 0.5, 0.5) on a 1920 x 1280 image
\* has the pixel box (480, 320, 960, 640).
C10_RoundedOnce ==
  pc = "done" =>
    /\ \A x \in 1..Len(detectedFaces) :
         \E a \in 1..Len(boxes) : FaceOfAnchor(detectedFaces[x], a)
    /\ \A x \in 1..Len(detectedFaces) :
         normalizedToPixel(detectedFaces[x].BoundingBox, image.width, image.height)
           = detectedFaces[x].PixelBoundingBox
    /\ \A x \in 1..Len(detectedFaces) :
         (image = [width |-> 1920, height |-> 1280]
            /\ detectedFaces[x].BoundingBox = QuarterBox)
           => detectedFaces[x].PixelBoundingBox
                = [Left |-> 480, Top |-> 320, Width |-> 960, Height |-> 640]

\* the quarter box on the 1920 x 1280 image
C10_Witness ==
  /\ pc = "done"
  /\ image = [width |-> 1920, height |-> 1280]
  /\ \E x \in 1..Len(detectedFaces) :
       /\ detectedFaces[x].BoundingBox = QuarterBox
       /\ detectedFaces[x].PixelBoundingBox
            = [Left |-> 480, Top |-> 320, Width |-> 960, Height |-> 640]

\* ------------------------------------------------------------------------

\* the positions of finalIndices whose candidate reaches the visibility
\* threshold
VisiblePositions ==
  { p \in 1..Len(finalIndices) : filtered.scores[finalIndices[p]] >= VIS_THRESHOLD }

\* C11: the detections are exactly the survivors of the suppression (after
\* the KEEP_TOP_K cut) whose score is not below the visibility threshold, in
\* the survivors' order; the threshold is applied after the suppression and
\* is not the low threshold applied before it.
C11_VisibilityThreshold ==
  /\ VIS_THRESHOLD > CONFIDENCE_THRESHOLD
  /\ pc \in AfterFormat =>
       /\ Len(detections) = Cardinality(VisiblePositions)
       /\ \E f \in [1..Len(detections) -> VisiblePositions] :
            /\ \A x \in 1..Len(detections) : \A y \in 1..Len(detections) :
                 x < y => f[x] < f[y]
            /\ \A x \in 1..Len(detections) :
                 LET idx == finalIndices[f[x]] IN
                   /\ detections[x].bbox = filtered.boxes[idx]
                   /\ detections[x].confidence = filtered.scores[idx]
                   /\ Flatten(detections[x].landmarks) = filtered.landmarks[idx]
  /\ pc = "done" => Len(detectedFaces) = Len(detections)

\* a survivor exactly at the visibility threshold is returned, a survivor
\* between the two thresholds is not
C11_Witness ==
  /\ pc = "convert"
  /\ \E p \in 1..Len(finalIndices) : filtered.scores[finalIndices[p]] = VIS_THRESHOLD
  /\ \E p \in 1..Len(finalIndices) :
       /\ filtered.scores[finalIndices[p]] < VIS_THRESHOLD
       /\ filtered.scores[finalIndices[p]] > CONFIDENCE_THRESHOLD
  /\ Len(detections) = 1
  /\ detections[1].confidence = VIS_THRESHOLD

\* C12: the faces returned by detectAllFacesWithRetinaFace are in
\* non-increasing order of area, the first one being the largest.
C12_SortedByArea ==
  pc = "done" =>
    \A x \in 1..Len(detectedFaces) : \A y \in 1..Len(detectedFaces) :
      x < y =>
        /\ IsNumber(detectedFaces[x].Area)
        /\ IsNumber(detectedFaces[y].Area)
        /\ detectedFaces[x].Area >= detectedFaces[y].Area

\* C13: when no candidate reaches the visibility threshold the pipeline
\* returns the empty list and no error; a run fails only before any
\* candidate is scored.
C13_EmptyIsNoError ==
  /\ pc \in AfterDecode => error = ""
  /\ pc = "failed" => (error # "" /\ scores = <<>>)
  /\ (pc \in AfterFormat /\ \A a \in 1..Len(scores) : ~(scores[a] >= VIS_THRESHOLD)) =>
       /\ detections = <<>>
       /\ error = ""
  /\ (pc = "done" /\ \A a \in 1..Len(scores) : ~(scores[a] >= VIS_THRESHOLD)) =>
       detectedFaces = <<>>

\* candidates pass the low threshold and the suppression, none is visible
C13_Witness ==
  /\ pc = "done"
  /\ Len(finalIndices) > 0
  /\ \A a \in 1..Len(scores) : scores[a] < VIS_THRESHOLD
  /\ detectedFaces = <<>>
  /\ error = ""

\* ------------------------------------------------------------------------

\* C14: a comparison of two embeddings of different lengths fails with an
\* error and returns no cosine or Euclidean value, in the library function
\* and in the /compare handler.
C14_DimensionMismatchFails ==
  (cmpPc \in {"returned", "thrown"} /\ Len(embA) # Len(embB)) =>
    /\ cmpPc = "thrown"
    /\ cmpResult = NoResult

\* C15: a comparison with an embedding of norm zero ends in an error of its
\* own and never sends NaN as the similarity.
C15_DegenerateRejected ==
  (cmpPc \in {"returned", "thrown"}
     /\ Len(embA) = Len(embB)
     /\ (SquaredNorm(embA) = 0 \/ SquaredNorm(embB) = 0)) =>
    /\ cmpPc = "thrown"
    /\ cmpError \notin {"", "Missing image_base64", "no_face_detected"}

\* the quotient is 1
IsOne(q) == ~q.nan /\ q.dot > 0 /\ q.dot * q.dot = q.nn

\* the root is 0
IsZero(r) == ~r.nan /\ r.sq = 0

\* C16: an embedding compared with itself has cosine similarity 1 and
\* Euclidean distance 0.
C16_SelfComparison ==
  (cmpPc = "returned" /\ embA = embB) =>
    /\ IsOne(cmpResult.cosine)
    /\ IsZero(cmpResult.euclidean)

\* the score reported in row x is not below the one reported in row y
ScoreNotBelow(x, y) ==
  IF qRows[x].fixed
  THEN qRows[x].score >= qRows[y].score
  ELSE ~QuotientLess(qRows[x].cosine, qRows[y].cosine)

\* C17: a similarity query answers at most k rows, in non-increasing order of
\* the cosine similarity it reports.
C17_BestFirst ==
  qPc = "answered" =>
    /\ Len(qRows) <= qLimit
    /\ \A x \in 1..Len(qRows) : \A y \in 1..Len(qRows) : x < y => ScoreNotBelow(x, y)

\* ------------------------------------------------------------------------

\* the positions of the tensors of the reply whose trailing dimension is d
WithTrailing(d) ==
  { x \in 1..Len(outputs) : Len(outputs[x].dims) = 3 /\ outputs[x].dims[3] = d }

\* C18: the location, score and landmark arrays are the data of the outputs
\* whose trailing dimension is 4, 2 and 10, whatever the outputs are called
\* and in whatever order they come; when one of the three is missing the
\* detection fails before anything is decoded.
C18_TensorsByShape ==
  /\ pc \in ({"decode"} \cup AfterDecode) =>
       /\ \E x \in WithTrailing(4) : modelOutputs.loc = outputs[x].data
       /\ \E x \in WithTrailing(2) : modelOutputs.conf = outputs[x].data
       /\ \E x \in WithTrailing(10) : modelOutputs.landms = outputs[x].data
  /\ (pc = "failed" /\ outputs # <<>>) =>
       /\ \E d \in {4, 2, 10} : WithTrailing(d) = {}
       /\ error = "Failed to extract RetinaFace outputs"
       /\ modelOutputs = NoOutputs
       /\ priors = <<>>
       /\ boxes = <<>>
  /\ (pc \notin {"run", "extract", "failed"} /\ outputs # <<>>) =>
       \A d \in {4, 2, 10} : WithTrailing(d) # {}

\* a reply whose location tensor is called "landms" and comes last is decoded
C18_Witness ==
  /\ pc = "filter"
  /\ outputs[3].key = "landms"
  /\ outputs[3].dims[3] = 4
  /\ outputs[1].key # "conf"
  /\ outputs[1].dims[3] = 2
  /\ modelOutputs.loc = outputs[3].data
  /\ modelOutputs.conf = outputs[1].data
  /\ Len(boxes) = Len(priors)

\* ------------------------------------------------------------------------
\* C19
\* ------------------------------------------------------------------------

\* the response of a request for an image with n faces that runs alone
AloneResponse(r, n) ==
  IF n = 0
  THEN [error |-> "no_face_detected", total_faces |-> 0, results |-> <<>>,
        failed |-> 0]
  ELSE [error |-> "", total_faces |-> n,
        results |-> [k \in 1..n |-> [face |-> k - 1,
                                     content |-> CropOf(r, k - 1)]],
        failed |-> 0]

\* C19: requests are independent: each of two concurrent /store_embedding
\* or /search requests answers what it would answer if it ran alone (its
\* own face count, and for face_i the crop of its own face i)
C19_RequestsIndependent ==
  \A r \in Requests :
    reqs[r].rpc = "responded" =>
      Response(reqs[r]) = AloneResponse(r, reqs[r].image)

\* ------------------------------------------------------------------------
\* C20
\* ------------------------------------------------------------------------

NotInitialized ==
  {"ArcFace model not initialized", "RetinaFace model not initialized"}

\* the server listens only after the three steps of start, in their order
ListensAfterStart ==
  listening => /\ startLog = StartOrder
               /\ arcfaceSession
               /\ retinaSession

\* no call ran inference on a handle that was not initialised; such a call
\* failed with 'model not initialized'
CallsGuarded ==
  \A c \in 1..Len(calls) :
    /\ calls[c].out.ran => calls[c].handle
    /\ ~calls[c].handle => /\ ~calls[c].out.ran
                           /\ calls[c].out.error \in NotInitialized

\* a step that writes a session handle is a step of initModels: it is no
\* call, and the server does not listen yet
HandlesWrittenByInitOnly ==
  (arcfaceSession' # arcfaceSession \/ retinaSession' # retinaSession) =>
    /\ calls' = calls
    /\ ~listening
    /\ srvPc \in {"bucket", "arcface"}

\* C20: the server listens only after the database connection, the bucket
\* check and the initialisation of the models, in that order; no inference
\* runs on a session handle that is not initialised, a call made then fails
\* with 'model not initialized'; only initModels writes the handles
C20_InitBarrier ==
  /\ [](ListensAfterStart /\ CallsGuarded)
  /\ [][HandlesWrittenByInitOnly]_vars

\* the server listens and has answered a request by inference, and a call
\* made before the models were initialised has failed
C20_Witness ==
  /\ listening
  /\ \E c \in 1..Len(calls) :
       calls[c].via = "http" /\ calls[c].out.ran
  /\ \E c \in 1..Len(calls) :
       ~calls[c].handle /\ calls[c].out.error \in NotInitialized

\* ------------------------------------------------------------------------
\* C21
\* ------------------------------------------------------------------------

\* C21: while the configuration and the input resolution do not change, the
\* anchor list is generated at most once: forward() of PriorBox has returned
\* at most one list over all the detection requests
C21_AnchorsGeneratedOnce == Len(pbRuns) <= 1

\* ------------------------------------------------------------------------
\* C22
\* ------------------------------------------------------------------------

\* tables and bucket are as they were when the request arrived
Untouched(req) ==
  /\ faceRows = req.before.faceRows
  /\ customerRows = req.before.customerRows
  /\ bucket = req.before.bucket

Answered(r, op) == hreqs[r].op = op /\ hreqs[r].rpc = "responded"

Unreferenced(faces, custs) ==
  {f \in DOMAIN faces : \A c \in DOMAIN custs : custs[c].face_id # f}

C24_NoFaceNoEffect ==
  \A r \in Solo :
    (Answered(r, "detect") /\ hreqs[r].hasFile /\ hreqs[r].n = 0) =>
      /\ hreqs[r].status = 400
      /\ hreqs[r].error = "no_face_detected"
      /\ Untouched(hreqs[r])

\* an image without a face was refused after other faces had been stored
C24_Witness ==
  /\ Answered(1, "detect")
  /\ hreqs[1].hasFile
  /\ hreqs[1].n = 0
  /\ hreqs[1].error = "no_face_detected"
  /\ DOMAIN faceRows # {}

\* ------------------------------------------------------------------------
\* C25
\* ------------------------------------------------------------------------

\* the request did nothing but answer
NothingDone(req) ==
  /\ customerRows = req.before.customerRows
  /\ ~req.downloaded
  /\ ~req.embedded

CustomersHaveFaces ==
  \A c \in DOMAIN customerRows : customerRows[c].face_id \in DOMAIN faceRows

\* a step that removes a face removes a face no customer is enrolled from
NoEnrolledFaceRemoved ==
  \A f \in DOMAIN faceRows :
    f \notin DOMAIN faceRows' => References(customerRows, f) = {}

\* C26: under any interleaving of enroll, delete-face, delete-orphaned and
\* delete-customer requests every enrolled_customers row references a face
\* that is in detected_faces, and no face is deleted while a customer
\* enrolled from it exists
C26_NoFaceDeletedWhileEnrolled ==
  /\ []CustomersHaveFaces
  /\ [][NoEnrolledFaceRemoved]_vars

\* ------------------------------------------------------------------------
\* C27
\* ------------------------------------------------------------------------

\* C27: once every request of a sequence of detect and delete operations is
\* answered, the original_image_path and the face_image_path of every
\* remaining detected_faces row name objects that are in the bucket, so a
\* delete never removes an object that another row references
C27_PathsResolve ==
  (\A r \in Solo : hreqs[r].rpc \in {"idle", "responded"}) =>
    \A f \in DOMAIN faceRows :
      /\ faceRows[f].original_image_path \in bucket
      /\ faceRows[f].face_image_path \in bucket

\* ------------------------------------------------------------------------
\* C29
\* ------------------------------------------------------------------------

\* C29: detectAndStoreFaces is all-or-nothing: when the crop, the upload or
\* the insert of a face fails and the request is answered 500, no object and
\* no row written by the request remains
C29_DetectAllOrNothing ==
  \A r \in Solo :
    (Answered(r, "detect") /\ hreqs[r].status = 500) => Untouched(hreqs[r])

\* ------------------------------------------------------------------------
\* C28
\* ------------------------------------------------------------------------

\* detection x was taken from anchor a: its box, its confidence and its five
\* landmarks are the scaled box, the score and the scaled landmarks of a
FromAnchor(x, a) ==
  /\ detections[x].confidence = scores[a]
  /\ detections[x].bbox = scaled.scaledBoxes[a]
  /\ Flatten(detections[x].landmarks) = scaled.scaledLandmarks[a]

\* C28: the box, the confidence and the five landmarks of every detection
\* come from one and the same anchor index, and different detections come
\* from different anchors: the filter, the sort, the TOP_K cut and the
\* index remapping of the suppression never pair the values of two anchors
C28_SameAnchor ==
  pc \in AfterFormat =>
    \E m \in Injections(Len(detections), 1..Len(scores)) :
      \A x \in 1..Len(detections) : FromAnchor(x, m[x])

\* two detections were returned in the opposite order of their anchors, and
\* the landmarks of the two anchors differ
C28_Witness ==
  /\ pc = "convert"
  /\ Len(detections) = 2
  /\ \E a \in 1..Len(scores) : \E b \in 1..Len(scores) :
       /\ a < b
       /\ FromAnchor(1, b)
       /\ FromAnchor(2, a)
       /\ scaled.scaledLandmarks[a] # scaled.scaledLandmarks[b]
       /\ scaled.scaledBoxes[a] # scaled.scaledBoxes[b]

\* ------------------------------------------------------------------------
\* C30
\* ------------------------------------------------------------------------

\* C30: a /store_embedding or /search request that runs alone, for an image
\* of n faces, answers for every i < n an entry face_i computed from
\* face_i.jpg, the crop of the i-th face in the order of detection (also for
\* n > 10), and total_faces is the number of entries plus the failures
C30_LabelsMatchFiles ==
  \A r \in DOMAIN reqs :
    reqs[r].rpc = "responded" =>
      /\ Response(reqs[r]) = AloneResponse(r, reqs[r].image)
      /\ Response(reqs[r]).total_faces
           = Len(Response(reqs[r]).results) + Response(reqs[r]).failed

====
